---- MODULE Spec2Model ----
(***************************************************************************)
(* Model of the metasearch2 extraction and adapter framework:              *)
(*   src/src/parse.rs                  generic HTML extraction engine      *)
(*   src/src/engines/search/bing.rs    Bing adapter                        *)
(*   src/src/engines/search/google.rs  Google adapter, async-token cache   *)
(*                                                                         *)
(* Strings are TLA+ strings; every character of the modelled inputs is     *)
(* ASCII, so Len is both the character and the byte length of a string.    *)
(***************************************************************************)
EXTENDS Integers, Sequences, FiniteSets, TLC

VARIABLES
    call,     \* the invocation of a parse / clean function under way
    ret,      \* its outcome, or Pending while it has not returned
    threads,  \* the threads that call google.rs generate_async_value
    cache,    \* CURRENT_RANDOM_CHARACTERS: the (token, Instant) slot
    wlock,    \* the thread holding the slot's write lock, 0 when free
    now,      \* the monotonic clock, in milliseconds
    nfresh,   \* how many tokens generate_new_arc_id_random has drawn
    pc,       \* each thread's position in generate_async_value
    local,    \* each thread's (random_characters, last_set) copy
    stored,   \* history: every pair ever put in the slot, oldest first
    done      \* history: the calls that returned, oldest first

pvars == <<call, ret>>
tvars == <<threads, cache, wlock, now, nfresh, pc, local, stored, done>>
vars == <<call, ret, threads, cache, wlock, now, nfresh, pc, local, stored, done>>

(***************************************************************************)
(* Outcomes of a Rust call: Ok(v), Err(e) (an eyre::Result error value)    *)
(* or a panic that unwinds through the caller.                             *)
(***************************************************************************)
Ok(v) == [tag |-> "Ok", val |-> v]
Err(e) == [tag |-> "Err", val |-> e]
Panic(m) == [tag |-> "Panic", val |-> m]
Pending == [tag |-> "Pending", val |-> ""]

(***************************************************************************)
(* String helpers (str::starts_with, str::find, slicing).                  *)
(***************************************************************************)
CharAt(s, i) == SubSeq(s, i, i)

StartsWith(s, p) == Len(s) >= Len(p) /\ SubSeq(s, 1, Len(p)) = p

\* index of the first occurrence of the character c in s, 0 when absent
IndexOf(s, c) ==
    IF \E i \in 1..Len(s) : CharAt(s, i) = c
    THEN CHOOSE i \in 1..Len(s) :
            /\ CharAt(s, i) = c
            /\ \A j \in 1..(i - 1) : CharAt(s, j) # c
    ELSE 0

\* s[from..] with a 1-based first index
From(s, from) == SubSeq(s, from, Len(s))

\* s split on the character c, as str::split does (n separators, n+1 pieces)
RECURSIVE Split(_, _)
SplitAt(s, c, i) ==
    IF i = 0 THEN <<s>>
    ELSE <<SubSeq(s, 1, i - 1)>> \o Split(From(s, i + 1), c)
Split(s, c) == SplitAt(s, c, IndexOf(s, c))

\* the printable ASCII characters of codes 32..95 and 97..126, in order (a
\* TLA+ string cannot hold the grave accent, code 96)
AsciiLow == " !\"#$%&'()*+,-./0123456789:;<=>?@ABCDEFGHIJKLMNOPQRSTUVWXYZ[\\]^_"
AsciiHigh == "abcdefghijklmnopqrstuvwxyz{|}~"

\* String::from_utf8_lossy on one byte: printable ASCII and the tab are
\* themselves; another control byte (and code 96) is kept as one unprintable
\* character, written "^"; a byte above 127, never part of a valid sequence
\* in the modelled inputs, becomes U+FFFD, written "?".
ByteToChar(b) ==
    IF b = 9 THEN "\t"
    ELSE IF b >= 32 /\ b <= 95 THEN CharAt(AsciiLow, b - 31)
    ELSE IF b >= 97 /\ b <= 126 THEN CharAt(AsciiHigh, b - 96)
    ELSE IF b <= 127 THEN "^"
    ELSE "?"

RECURSIVE from_utf8_lossy(_)
from_utf8_lossy(bytes) ==
    IF bytes = <<>> THEN ""
    ELSE ByteToChar(Head(bytes)) \o from_utf8_lossy(Tail(bytes))

HexDigits == "0123456789ABCDEF"
HexDigitsLower == "0123456789abcdef"

\* value of a hexadecimal digit, -1 when c is none
HexValOf(upper, lower) ==
    IF upper > 0 THEN upper - 1 ELSE IF lower > 0 THEN lower - 1 ELSE -1
HexVal(c) == HexValOf(IndexOf(HexDigits, c), IndexOf(HexDigitsLower, c))

(***************************************************************************)
(* url crate: form_urlencoded::parse, as reached through Url::query_pairs. *)
(***************************************************************************)
\* '+' becomes a space and %XX the byte XX; the bytes are then read lossily
RECURSIVE form_decode(_)
PercentDecoded(s, hi, lo) ==
    IF hi >= 0 /\ lo >= 0 THEN ByteToChar(16 * hi + lo) \o form_decode(From(s, 4))
    ELSE Head(s) \o form_decode(Tail(s))
form_decode(s) ==
    IF s = "" THEN ""
    ELSE IF Head(s) = "+" THEN " " \o form_decode(Tail(s))
    ELSE IF Head(s) = "%" /\ Len(s) >= 3
         THEN PercentDecoded(s, HexVal(CharAt(s, 2)), HexVal(CharAt(s, 3)))
    ELSE Head(s) \o form_decode(Tail(s))

\* the query of a URL: what follows the first '?', up to a '#'
UpTo(s, i) == IF i = 0 THEN s ELSE SubSeq(s, 1, i - 1)
After(s, i) == IF i = 0 THEN "" ELSE From(s, i + 1)
WithoutFragment(url) == UpTo(url, IndexOf(url, "#"))
QueryOf(nofrag) == After(nofrag, IndexOf(nofrag, "?"))
UrlQuery(url) == QueryOf(WithoutFragment(url))

\* one name=value piece, split at its first '='
PairOf(p, e) == <<form_decode(UpTo(p, e)), form_decode(After(p, e))>>

RECURSIVE PairsOf(_)
PairsOf(pieces) ==
    IF pieces = <<>> THEN <<>>
    ELSE IF Head(pieces) = "" THEN PairsOf(Tail(pieces))
    ELSE <<PairOf(Head(pieces), IndexOf(Head(pieces), "="))>> \o PairsOf(Tail(pieces))

query_pairs(url) == PairsOf(Split(UrlQuery(url), "&"))

\* .find(|(key, _)| key == k).unwrap_or_default().1
FindPairOrDefault(pairs, k) ==
    IF \E i \in 1..Len(pairs) : pairs[i][1] = k
    THEN pairs[CHOOSE i \in 1..Len(pairs) :
                 /\ pairs[i][1] = k
                 /\ \A j \in 1..(i - 1) : pairs[j][1] # k][2]
    ELSE ""

(***************************************************************************)
(* base64 crate: general_purpose::URL_SAFE_NO_PAD.decode                   *)
(***************************************************************************)
UrlSafeAlphabet ==
    "ABCDEFGHIJKLMNOPQRSTUVWXYZabcdefghijklmnopqrstuvwxyz0123456789-_"

B64Val(c) == IndexOf(UrlSafeAlphabet, c) - 1

\* Ok(bytes), or Err when a symbol is outside the alphabet (padding '='
\* included), the length is 1 mod 4, or the last symbol has trailing bits
\* the bytes of one group of symbol values v, then those of the rest
B64Group(v, rest) ==
    IF rest.tag # "Ok" THEN rest
    ELSE Ok(<<v[1] * 4 + v[2] \div 16,
              (v[2] % 16) * 16 + v[3] \div 4,
              (v[3] % 4) * 64 + v[4]>> \o rest.val)

\* the bytes of the last, partial group
B64Tail(v) ==
    IF Len(v) = 1 THEN Err("InvalidLength")
    ELSE IF Len(v) = 2 THEN
        IF v[2] % 16 # 0 THEN Err("InvalidLastSymbol")
        ELSE Ok(<<v[1] * 4 + v[2] \div 16>>)
    ELSE IF v[3] % 4 # 0 THEN Err("InvalidLastSymbol")
    ELSE Ok(<<v[1] * 4 + v[2] \div 16, (v[2] % 16) * 16 + v[3] \div 4>>)

RECURSIVE B64Bytes(_)
B64Bytes(v) ==
    IF Len(v) = 0 THEN Ok(<<>>)
    ELSE IF Len(v) < 4 THEN B64Tail(v)
    ELSE B64Group(v, B64Bytes(SubSeq(v, 5, Len(v))))

B64Checked(v) ==
    IF \E i \in 1..Len(v) : v[i] < 0 THEN Err("InvalidByte") ELSE B64Bytes(v)

b64_decode(s) == B64Checked([i \in 1..Len(s) |-> B64Val(CharAt(s, i))])

(***************************************************************************)
(* bing.rs: clean_url                                                      *)
(***************************************************************************)
BING_TRACKING_PREFIX == "https://www.bing.com/ck/a?"

\* Result::unwrap_or_default / Option::unwrap_or_default
UnwrapOrDefault(r, default) == IF r.tag = "Ok" THEN r.val ELSE default

\* bing.rs 268-273: cut off the "a1" and base64 decode; &u[2..] panics on a
\* u of fewer than two bytes
BingDecodeU(u) ==
    IF Len(u) < 2 THEN Panic("byte index 2 is out of bounds")
    ELSE Ok(from_utf8_lossy(UnwrapOrDefault(b64_decode(From(u, 3)), <<>>)))

bing_clean_url(url) ==
    IF StartsWith(url, BING_TRACKING_PREFIX)
    \* Url::parse succeeds on every string with this prefix
    THEN BingDecodeU(FindPairOrDefault(query_pairs(url), "u"))
    ELSE Ok(url)

(***************************************************************************)
(* google.rs: clean_url                                                    *)
(***************************************************************************)
GOOGLE_TRACKING_PREFIX == "/url?q="

\* google_clean_url that takes every /url link for a tracking link
google_clean_url_AnyUrlPath(url) ==
    IF StartsWith(url, "/url?") THEN
        Ok(FindPairOrDefault(query_pairs("https://www.google.com" \o url), "q"))
    ELSE Ok(url)

google_clean_url(url) ==
    IF StartsWith(url, GOOGLE_TRACKING_PREFIX) THEN
        \* Url::parse("https://www.google.com" + url) succeeds on every such url
        Ok(FindPairOrDefault(query_pairs("https://www.google.com" \o url), "q"))
    ELSE Ok(url)

(***************************************************************************)
(* scraper crate: the parsed document.  Html::parse_document never fails;  *)
(* a body is given by the tree it parses to.  A node is a text node        *)
(* [text] or an element [sel, attrs, cls, kids]: sel is the set of CSS     *)
(* selectors of the adapters that the element matches, attrs its           *)
(* attributes, cls its classes, kids its child nodes in document order.    *)
(***************************************************************************)
Txt(t) == [text |-> t]
El(sel, attrs, cls, kids) == [sel |-> sel, attrs |-> attrs, cls |-> cls, kids |-> kids]
NoAttrs == <<>>

IsEl(n) == "kids" \in DOMAIN n
HasAttr(el, a) == a \in DOMAIN el.attrs

\* ElementRef::text().collect::<String>(): the text nodes below a node
RECURSIVE TextOf(_)
TextOfKids(kids) ==
    IF Len(kids) = 0 THEN ""
    ELSE TextOf(Head(kids)) \o TextOf([kids |-> Tail(kids)])
TextOf(n) == IF IsEl(n) THEN TextOfKids(n.kids) ELSE n.text

\* the elements below el, in document order
RECURSIVE Descendants(_)
SelfAndDescendants(n) == IF IsEl(n) THEN <<n>> \o Descendants(n) ELSE <<>>
Descendants(el) ==
    IF Len(el.kids) = 0 THEN <<>>
    ELSE SelfAndDescendants(Head(el.kids)) \o Descendants([kids |-> Tail(el.kids)])

\* ElementRef::select / Html::select: the matching elements in document order
Select(el, selector) ==
    LET M(e) == selector \in e.sel IN SelectSeq(Descendants(el), M)

NoneV == [some |-> FALSE]
Some(v) == [some |-> TRUE, val |-> v]

\* .next() of an iterator
First(seq) == IF Len(seq) = 0 THEN NoneV ELSE Some(seq[1])

(***************************************************************************)
(* crate::urls::normalize_url is not part of the sources at hand: it is    *)
(* kept as an opaque, injective mark on the string it was given.           *)
(***************************************************************************)
normalize_url(url) == "normalized<" \o url \o ">"

(***************************************************************************)
(* google.rs: the featured-snippet closures of parse_response              *)
(***************************************************************************)
G_RESULT_SELECTOR == "[jscontroller=SC7lYd]"
G_TITLE_SELECTOR == "h3"
G_HREF_SELECTOR == "a[href]"
G_DESCRIPTION_SELECTOR == "div[data-sncf='2'], div[data-sncf='1,2'], div[style='-webkit-line-clamp:2']"
G_FEATURED_SNIPPET_SELECTOR == "block-component"
G_HEADING_SELECTOR == "div[role='heading']"
G_DESC_CONTAINER_SELECTOR == "div[data-attrid='wa:/description'] > span:first-child"
G_UL_SELECTOR == "ul"
G_LI_SELECTOR == "li"
G_FS_TITLE_SELECTOR == ".g > div[lang] a h3, div[lang] > div[style='position:relative'] a h3"
G_FS_HREF_SELECTOR == ".g > div[lang] a:has(h3), div[lang] > div[style='position:relative'] a:has(h3)"

RECURSIVE recursive_iter_featured_snippet_children(_)
\* a variant that skips every element carrying data-ved
SnippetChild_AnyDataVed(inner_node) ==
    IF ~IsEl(inner_node) THEN inner_node.text
    ELSE IF ~HasAttr(inner_node, "data-ved")
         THEN recursive_iter_featured_snippet_children(inner_node)
    ELSE ""
SnippetChild(inner_node) ==
    IF ~IsEl(inner_node) THEN inner_node.text
    ELSE IF \/ ~HasAttr(inner_node, "data-ved")
            \/ HasAttr(inner_node, "data-send-open-event")
         THEN recursive_iter_featured_snippet_children(inner_node)
    ELSE ""
recursive_iter_featured_snippet_children(el) ==
    IF Len(el.kids) = 0 THEN ""
    ELSE SnippetChild(Head(el.kids))
            \o recursive_iter_featured_snippet_children([kids |-> Tail(el.kids)])

iter_featured_snippet_children(el) == recursive_iter_featured_snippet_children(el)

RECURSIVE BulletPoints(_)
BulletPoints(lis) ==
    IF Len(lis) = 0 THEN ""
    \* format!("\u{2022} {text}\n"): the bullet is written "*" here
    ELSE "* " \o TextOf(Head(lis)) \o "\n" \o BulletPoints(Tail(lis))

GoogleSnippetDescription(heading_el, description_container_el, description_list_el) ==
    (IF heading_el.some THEN TextOf(heading_el.val) \o "\n\n" ELSE "")
    \o (IF description_container_el.some
        THEN iter_featured_snippet_children(description_container_el.val)
        ELSE IF description_list_el.some
        THEN BulletPoints(Select(description_list_el.val, G_LI_SELECTOR))
        ELSE "")

google_featured_snippet_description(el) ==
    Ok(GoogleSnippetDescription(First(Select(el, G_HEADING_SELECTOR)),
                                First(Select(el, G_DESC_CONTAINER_SELECTOR)),
                                First(Select(el, G_UL_SELECTOR))))

\* .and_then(|n| n.value().attr("href")).unwrap_or_default()
HrefAttrOrDefault(opt) ==
    IF opt.some /\ HasAttr(opt.val, "href") THEN opt.val.attrs.href ELSE ""

google_featured_snippet_href(el) ==
    google_clean_url(HrefAttrOrDefault(First(Select(el, G_FS_HREF_SELECTOR))))

(***************************************************************************)
(* bing.rs: the closures of parse_response                                 *)
(***************************************************************************)
B_RESULT_SELECTOR == "#b_results > li.b_algo"
B_TITLE_SELECTOR == ".b_algo h2 > a"
B_HREF_SELECTOR == "a[href]"
B_DESC_SELECTOR == ".b_caption > p, p.b_algoSlug, .b_caption .ipText"

bing_href(el) == bing_clean_url(HrefAttrOrDefault(First(Select(el, B_HREF_SELECTOR))))

BingDescriptionChild(inner_node) ==
    IF ~IsEl(inner_node) THEN inner_node.text
    ELSE IF "algoSlug_icon" \notin inner_node.cls THEN TextOf(inner_node)
    ELSE ""

RECURSIVE BingDescriptionOf(_)
BingDescriptionOf(nodes) ==
    IF Len(nodes) = 0 THEN ""
    ELSE BingDescriptionChild(Head(nodes)) \o BingDescriptionOf(Tail(nodes))

\* .map(|n| n.children().collect()).unwrap_or_default()
ChildrenOrDefault(opt) == IF opt.some THEN opt.val.kids ELSE <<>>

bing_description(el) ==
    Ok(BingDescriptionOf(ChildrenOrDefault(First(Select(el, B_DESC_SELECTOR)))))

(***************************************************************************)
(* serde_json: a JSON text is either undecodable or decodes to a value     *)
(* null, string, number, array or object.                                  *)
(***************************************************************************)
\* s holds a string or a number's literal, a an array's items, o an object's
\* members in order
JNull == [j |-> "null", s |-> "", a |-> <<>>, o |-> <<>>]
JStr(x) == [j |-> "str", s |-> x, a |-> <<>>, o |-> <<>>]
JNum(n) == [j |-> "num", s |-> n, a |-> <<>>, o |-> <<>>]
JArr(items) == [j |-> "arr", s |-> "", a |-> items, o |-> <<>>]
JObj(members) == [j |-> "obj", s |-> "", a |-> <<>>, o |-> members]
Member(key, value) == [k |-> key, v |-> value]

JsonText(value) == [valid |-> TRUE, value |-> value]
NotJson == [valid |-> FALSE, value |-> JNull]

\* serde_json::from_str::<serde_json::Value>
from_str_value(text) ==
    IF text.valid THEN Ok(text.value) ELSE Err("serde_json: syntax error")

\* serde_json::from_str::<Vec<serde_json::Value>>: the top level must be an array
from_str_vec(text) ==
    IF ~text.valid THEN Err("serde_json: syntax error")
    ELSE IF text.value.j # "arr" THEN Err("serde_json: invalid type, expected a sequence")
    ELSE Ok(text.value.a)

\* Value::as_str().unwrap_or_default()
AsStrOrDefault(value) == IF value.j = "str" THEN value.s ELSE ""

\* Value::as_array().cloned().unwrap_or_default()
AsArrayOrDefault(value) == IF value.j = "arr" THEN value.a ELSE <<>>

\* Value::get(key).and_then(|v| v.as_str()).unwrap_or_default()
RECURSIVE GetMember(_, _)
\* Value::get(key) on an object's members
GetMember(members, key) ==
    IF Len(members) = 0 THEN JNull
    ELSE IF Head(members).k = key THEN Head(members).v
    ELSE GetMember(Tail(members), key)

GetStrOrDefault(value, key) == AsStrOrDefault(GetMember(value.o, key))

(***************************************************************************)
(* google.rs 188-200: parse_autocomplete_response                          *)
(***************************************************************************)
\* .into_iter().nth(1).unwrap_or_default()
NthOrNull(items, n) == IF Len(items) >= n + 1 THEN items[n + 1] ELSE JNull

Suggestions(items) == [i \in 1..Len(items) |-> AsStrOrDefault(items[i])]

AutocompleteOf(res) ==
    IF res.tag # "Ok" THEN res  \* the `?` on from_str
    ELSE Ok(Suggestions(AsArrayOrDefault(NthOrNull(res.val, 1))))

parse_autocomplete_response(body) == AutocompleteOf(from_str_vec(body))

(***************************************************************************)
(* bing.rs 186-256: parse_images_response                                  *)
(***************************************************************************)
IMAGE_CONTAINER_SELECTOR == ".imgpt"
IMAGE_EL_SELECTOR == ".iusc"

Digits == "0123456789"
\* the characters \s matches and trim() removes, among those modelled
Whitespace == " \t\n\r\f"
\* U+00D7, the multiplication sign, is written "#": a TLA+ string is ASCII
MultiplicationSign == "#"
\* U+E000 and U+E001, which Bing puts around matches, are written "{" and "}"
MatchMarks == "{}"

IsIn(c, chars) == c # "" /\ IndexOf(chars, c) > 0

\* the length of the run of characters of chars that starts at s[i]
RECURSIVE RunLen(_, _, _)
RunLen(s, i, chars) ==
    IF i <= Len(s) /\ IsIn(CharAt(s, i), chars) THEN 1 + RunLen(s, i + 1, chars) ELSE 0

RECURSIVE ParseDecimal(_, _)
\* str::parse::<u64>().unwrap_or_default(); the modelled captions hold numbers
\* of at most four digits, far from the overflow that gives 0
ParseDecimal(digits, acc) ==
    IF digits = "" THEN acc
    ELSE ParseDecimal(Tail(digits), 10 * acc + (IndexOf(Digits, Head(digits)) - 1))

\* SIZE_REGEX (\d+)\s*[x#]\s*(\d+) tried at position i: the captures, or None.
\* w is the length of the first number, x the place of the sign, h the place
\* of the second number.
SizeFrom(s, i, w, x, h) ==
    IF /\ w >= 1
       /\ x <= Len(s)
       /\ IsIn(CharAt(s, x), "x" \o MultiplicationSign)
       /\ RunLen(s, h, Digits) >= 1
    THEN Some(<<ParseDecimal(SubSeq(s, i, i + w - 1), 0),
                ParseDecimal(SubSeq(s, h, h + RunLen(s, h, Digits) - 1), 0)>>)
    ELSE NoneV

SizeSign(s, i, w, x) == SizeFrom(s, i, w, x, x + 1 + RunLen(s, x + 1, Whitespace))
SizeNumber(s, i, w) == SizeSign(s, i, w, i + w + RunLen(s, i + w, Whitespace))
SizeAt(s, i) == SizeNumber(s, i, RunLen(s, i, Digits))

\* Regex::captures: the leftmost match
RECURSIVE SizeCaptures(_, _)
SizeFound(s, i, m) == IF m.some THEN m ELSE SizeCaptures(s, i + 1)
SizeCaptures(s, i) == IF i > Len(s) THEN NoneV ELSE SizeFound(s, i, SizeAt(s, i))

RECURSIVE RemoveChars(_, _)
RemoveChars(s, chars) ==
    IF s = "" THEN ""
    ELSE (IF IsIn(Head(s), chars) THEN "" ELSE Head(s)) \o RemoveChars(Tail(s), chars)

IsBlank(s) == RunLen(s, 1, Whitespace) = Len(s)

\* bing.rs 246-252
ImageResult(data, size) ==
    [page_url |-> GetStrOrDefault(data, "purl"),
     image_url |-> GetStrOrDefault(data, "murl"),
     title |-> RemoveChars(GetStrOrDefault(data, "t"), MatchMarks),
     width |-> size[1],
     height |-> size[2]]

\* bing.rs 224-244: the size, or the entry is skipped
ImageSized(image_results, data, captures) ==
    IF captures.some THEN Append(image_results, ImageResult(data, captures.val))
    ELSE image_results

\* bing.rs 220-223
ImageCaptioned(image_results, data, text) ==
    IF IsBlank(text) THEN image_results
    ELSE ImageSized(image_results, data, SizeCaptures(text, 1))

RECURSIVE ParseImages(_, _)
\* bing.rs 202: the `?` on the metadata's JSON
ImageData(data, image_container_el, rest, image_results) ==
    IF data.tag # "Ok" THEN data
    ELSE ParseImages(rest, ImageCaptioned(image_results, data.val, TextOf(image_container_el)))

\* bing.rs 192-201
ImageEl(image_el, image_container_el, rest, image_results) ==
    IF ~image_el.some THEN Err("no image element found")
    ELSE IF ~HasAttr(image_el.val, "m") THEN ParseImages(rest, image_results)
    ELSE ImageData(from_str_value(image_el.val.attrs.m), image_container_el, rest, image_results)

ParseImages(containers, image_results) ==
    IF Len(containers) = 0 THEN Ok([image_results |-> image_results])
    ELSE ImageEl(First(Select(Head(containers), IMAGE_EL_SELECTOR)), Head(containers),
                 Tail(containers), image_results)

bing_parse_images_response(dom) == ParseImages(Select(dom, IMAGE_CONTAINER_SELECTOR), <<>>)

(***************************************************************************)
(* google.rs 213-306: parse_images_response.  The text of a script is kept *)
(* as what internal_json_regex captures in it: nothing, or the JSON text   *)
(* of group 1.  An object's members are listed in the order in which       *)
(* serde_json::Map::values visits them.                                    *)
(***************************************************************************)
SCRIPT_SELECTOR == "script"

\* serde_json::from_str::<serde_json::Map<String, Value>>: the top level
\* must be an object
from_str_map(text) ==
    IF ~text.valid THEN Err("serde_json: syntax error")
    ELSE IF text.value.j # "obj" THEN Err("serde_json: invalid type, expected a map")
    ELSE Ok(text.value.o)

\* as_array().and_then(|a| a.get(n)) on an optional value, n counted from 0
ArrayGet(opt, n) ==
    IF opt.some /\ opt.val.j = "arr" /\ Len(opt.val.a) > n
    THEN Some(opt.val.a[n + 1]) ELSE NoneV

\* .and_then(|v| v.as_array())
AsArray(opt) == IF opt.some /\ opt.val.j = "arr" THEN opt ELSE NoneV

\* .and_then(|v| v.as_object()).and_then(|o| o.get(key))
ObjectGet(opt, key) ==
    IF /\ opt.some
       /\ opt.val.j = "obj"
       /\ \E i \in 1..Len(opt.val.o) : opt.val.o[i].k = key
    THEN Some(GetMember(opt.val.o, key)) ELSE NoneV

\* .and_then(|v| v.as_str())
AsStr(opt) == IF opt.some /\ opt.val.j = "str" THEN Some(opt.val.s) ELSE NoneV

\* a number's literal that deserializes as u64: digits only
IsU64(value) == value.j = "num" /\ value.s # "" /\ RunLen(value.s, 1, Digits) = Len(value.s)

\* serde_json::from_value::<(String, u64, u64)>(v.clone()).ok()
ImageTuple(opt) ==
    IF /\ opt.some
       /\ opt.val.j = "arr"
       /\ Len(opt.val.a) = 3
       /\ opt.val.a[1].j = "str"
       /\ IsU64(opt.val.a[2])
       /\ IsU64(opt.val.a[3])
    THEN Some(<<opt.val.a[1].s, ParseDecimal(opt.val.a[2].s, 0),
                ParseDecimal(opt.val.a[3].s, 0)>>)
    ELSE NoneV

\* google.rs 268-302: the result of one record, nothing after a `continue`
GoogleImageFrom(data, page_url, title) ==
    IF data.some /\ page_url.some /\ title.some
    THEN <<[image_url |-> data.val[1], page_url |-> page_url.val, title |-> title.val,
            width |-> data.val[2], height |-> data.val[3]]>>
    ELSE <<>>

GoogleImagePage(element_json, page) ==
    GoogleImageFrom(ImageTuple(ArrayGet(element_json, 3)),
                    AsStr(ArrayGet(page, 2)), AsStr(ArrayGet(page, 3)))

\* google.rs 260-266 and 278-286
GoogleImageOf(element_json) ==
    GoogleImagePage(element_json, AsArray(ObjectGet(ArrayGet(element_json, 9), "2003")))

GoogleImage(value) == GoogleImageOf(AsArray(ArrayGet(Some(value), 1)))

\* GoogleImages that stops at the first record it cannot read
RECURSIVE GoogleImages_StopAtDefect(_)
GoogleImages_StopAtDefect(members) ==
    IF Len(members) = 0 THEN <<>>
    ELSE IF GoogleImage(Head(members).v) = <<>> THEN <<>>
    ELSE GoogleImage(Head(members).v) \o GoogleImages_StopAtDefect(Tail(members))

\* google.rs 255-303
RECURSIVE GoogleImages(_)
GoogleImages(members) ==
    IF Len(members) = 0 THEN <<>>
    ELSE GoogleImage(Head(members).v) \o GoogleImages(Tail(members))

\* google.rs 223-234: group 1 of the first script the regex matches
ScriptCapture(script) == IF Len(script.kids) = 0 THEN NoneV ELSE script.kids[1].text

RECURSIVE InternalJson(_)
InternalJson(scripts) ==
    IF Len(scripts) = 0 THEN NoneV
    ELSE IF ScriptCapture(Head(scripts)).some THEN ScriptCapture(Head(scripts))
    ELSE InternalJson(Tail(scripts))

\* google.rs 239-253 and 305
GoogleImagesOf(internal_json) ==
    IF ~internal_json.some THEN Ok([image_results |-> <<>>])
    ELSE IF from_str_map(internal_json.val).tag # "Ok" THEN Ok([image_results |-> <<>>])
    ELSE Ok([image_results |-> GoogleImages(from_str_map(internal_json.val).val)])

\* the regex of line 218 is a constant that compiles: its `?` never returns
google_parse_images_response(dom) ==
    GoogleImagesOf(InternalJson(Select(dom, SCRIPT_SELECTOR)))

(***************************************************************************)
(* Request builders.  A RequestResponse is None or a GET request, kept as  *)
(* its URL and its headers; a builder that returns is given as Ok of its   *)
(* RequestResponse.                                                        *)
(***************************************************************************)
RequestNone == [kind |-> "None", url |-> "", headers |-> <<>>]
Get(url, headers) == [kind |-> "Http", url |-> url, headers |-> headers]

AsciiAlphanumeric == "0123456789abcdefghijklmnopqrstuvwxyzABCDEFGHIJKLMNOPQRSTUVWXYZ"

\* the ASCII code of a printable character or of the tab
CharCode(c) ==
    IF c = "\t" THEN 9
    ELSE IF IsIn(c, AsciiLow) THEN IndexOf(AsciiLow, c) + 31 ELSE IndexOf(AsciiHigh, c) + 96

\* form_urlencoded::byte_serialize: letters, digits and *-._ stay, a space
\* becomes '+', every other byte %XX
RECURSIVE form_encode(_)
EncodedChar(c) ==
    IF IsIn(c, AsciiAlphanumeric \o "*-._") THEN c
    ELSE IF c = " " THEN "+"
    ELSE "%" \o CharAt(HexDigits, (CharCode(c) \div 16) + 1)
             \o CharAt(HexDigits, (CharCode(c) % 16) + 1)
form_encode(s) == IF s = "" THEN "" ELSE EncodedChar(Head(s)) \o form_encode(Tail(s))

RECURSIVE SerializePairs(_)
SerializePairs(pairs) ==
    IF Len(pairs) = 0 THEN ""
    ELSE form_encode(Head(pairs)[1]) \o "=" \o form_encode(Head(pairs)[2])
         \o (IF Len(pairs) = 1 THEN "" ELSE "&") \o SerializePairs(Tail(pairs))

\* Url::parse_with_params on a base without a query
parse_with_params(base, pairs) == base \o "?" \o SerializePairs(pairs)

(***************************************************************************)
(* bing.rs 14-43, 58-96 and 141-183: language_to_country, request and      *)
(* request_images                                                          *)
(***************************************************************************)
language_to_country(lang) ==
    CASE lang = "en" -> "US" [] lang = "de" -> "DE" [] lang = "fr" -> "FR"
      [] lang = "es" -> "ES" [] lang = "it" -> "IT" [] lang = "pt" -> "PT"
      [] lang = "ru" -> "RU" [] lang = "ja" -> "JP" [] lang = "ko" -> "KR"
      [] lang = "zh" -> "CN" [] lang = "pl" -> "PL" [] lang = "nl" -> "NL"
      [] lang = "sv" -> "SE" [] lang = "da" -> "DK" [] lang = "no" -> "NO"
      [] lang = "fi" -> "FI" [] lang = "cs" -> "CZ" [] lang = "sk" -> "SK"
      [] lang = "hu" -> "HU" [] lang = "tr" -> "TR" [] lang = "ar" -> "SA"
      [] lang = "he" -> "IL" [] lang = "hi" -> "IN" [] lang = "th" -> "TH"
      [] lang = "vi" -> "VN" [] OTHER -> "US"

LowerLetters == "abcdefghijklmnopqrstuvwxyz"
UpperLetters == "ABCDEFGHIJKLMNOPQRSTUVWXYZ"

\* each character of s that is in from, replaced by the one at its place in to
RECURSIVE MapChars(_, _, _)
MapChars(s, from, to) ==
    IF s = "" THEN ""
    ELSE (IF IsIn(Head(s), from) THEN CharAt(to, IndexOf(from, Head(s))) ELSE Head(s))
         \o MapChars(Tail(s), from, to)

\* str::to_lowercase and str::to_uppercase on ASCII text
to_lowercase(s) == MapChars(s, UpperLetters, LowerLetters)
to_uppercase(s) == MapChars(s, LowerLetters, UpperLetters)

\* bing.rs 62-66
BingCountry(parts, lang) ==
    IF Len(parts) >= 2 THEN to_uppercase(parts[Len(parts)])
    ELSE to_uppercase(language_to_country(lang))

\* BingModifiedQueryOf that takes the segment after the language for the
\* region
BingModifiedQueryOf_SecondSegment(query, parts) ==
    query \o " language:" \o to_lowercase(parts[1]) \o " loc:"
          \o (IF Len(parts) >= 2 THEN to_uppercase(parts[2])
              ELSE to_uppercase(language_to_country(to_lowercase(parts[1]))))

\* bing.rs 60-67; str::split always yields a first part
BingModifiedQueryOf(query, parts) ==
    query \o " language:" \o to_lowercase(parts[1]) \o " loc:"
          \o BingCountry(parts, to_lowercase(parts[1]))

\* bing.rs 59-70 and 142-153
BingModifiedQuery(query, language) ==
    IF language # "" THEN BingModifiedQueryOf(query, Split(language, "-")) ELSE query

\* bing.rs 83-87
BingRegion(language, parts, lang) ==
    IF Len(parts) >= 2 THEN language ELSE lang \o "-" \o language_to_country(lang)

\* bing.rs 88-91
BingCookie(region, lang) ==
    "_EDGE_CD=m=" \o region \o "&u=" \o lang \o "; _EDGE_S=mkt=" \o region \o "&ui=" \o lang

BingCookieOf(language, parts) ==
    BingCookie(BingRegion(language, parts, to_lowercase(parts[1])), to_lowercase(parts[1]))

\* bing.rs 80-93 and 167-180
BingHeaders(language) ==
    IF language # "" THEN <<(<<"Cookie", BingCookieOf(language, Split(language, "-"))>>)>>
    ELSE <<>>

bing_request(query, language) ==
    Ok(Get(parse_with_params("https://www.bing.com/search",
               <<(<<"q", BingModifiedQuery(query, language)>>),
                 (<<"filters", "rcrse:\"1\"">>)>>),
           BingHeaders(language)))

bing_request_images(query, language) ==
    Ok(Get(parse_with_params("https://www.bing.com/images/async",
               <<(<<"q", BingModifiedQuery(query, language)>>), (<<"async", "content">>),
                 (<<"first", "1">>), (<<"count", "35">>)>>),
           BingHeaders(language)))

(***************************************************************************)
(* brave.rs 18-28: request                                                 *)
(***************************************************************************)
\* brave_request that declines the empty query too
brave_request_NonEmptyOnly(query) ==
    IF query = "" \/ \E i \in 1..Len(query) : CharAt(query, i) = "\""
    THEN Ok(RequestNone)
    ELSE Ok(Get(parse_with_params("https://search.brave.com/search", <<(<<"q", query>>)>>),
                <<>>))

brave_request(query) ==
    IF \E i \in 1..Len(query) : CharAt(query, i) = "\""
    THEN Ok(RequestNone)
    ELSE Ok(Get(parse_with_params("https://search.brave.com/search", <<(<<"q", query>>)>>),
                <<>>))

(***************************************************************************)
(* marginalia.rs 19-61: MarginaliaConfig and request.  The engine's extra  *)
(* configuration is a TOML table: a value is a string, an integer (kept as *)
(* its literal) or a table of members.                                     *)
(***************************************************************************)
TStr(x) == [t |-> "str", s |-> x, m |-> <<>>]
TInt(n) == [t |-> "int", s |-> n, m |-> <<>>]
TTable(members) == [t |-> "table", s |-> "", m |-> members]

RECURSIVE TomlGet(_, _)
TomlGet(members, key) ==
    IF Len(members) = 0 THEN NoneV
    ELSE IF Head(members).k = key THEN Some(Head(members).v)
    ELSE TomlGet(Tail(members), key)

\* a field that derives Deserialize as String: present and a string
IsTomlString(field) == field.some /\ field.val.t = "str"

\* MarginaliaArgs from the args table
MarginaliaArgsOf(args) ==
    IF /\ IsTomlString(TomlGet(args, "profile"))
       /\ IsTomlString(TomlGet(args, "js"))
       /\ IsTomlString(TomlGet(args, "adtech"))
    THEN Ok([profile |-> TomlGet(args, "profile").val.s,
             js |-> TomlGet(args, "js").val.s,
             adtech |-> TomlGet(args, "adtech").val.s])
    ELSE Err("toml: missing field or invalid type")

\* toml::Value::Table(config_toml).try_into::<MarginaliaConfig>()
MarginaliaConfigOf(args) ==
    IF args.some /\ args.val.t = "table" THEN MarginaliaArgsOf(args.val.m)
    ELSE Err("toml: missing field or invalid type")

\* str::split_whitespace().count()
RECURSIVE WordCount(_, _)
WordCount(s, inword) ==
    IF s = "" THEN 0
    ELSE IF IsIn(Head(s), Whitespace) THEN WordCount(Tail(s), FALSE)
    ELSE (IF inword THEN 0 ELSE 1) + WordCount(Tail(s), TRUE)

\* chars().all(|c| c.is_ascii_alphanumeric() || c == ' ')
PlainQuery(query) ==
    \A i \in 1..Len(query) : IsIn(CharAt(query, i), AsciiAlphanumeric \o " ")

\* marginalia.rs 39-60
MarginaliaRequestWith(query, config) ==
    IF config.tag # "Ok" THEN Ok(RequestNone)
    ELSE Ok(Get(parse_with_params("https://old-search.marginalia.nu/search",
                    <<(<<"query", query>>), (<<"profile", config.val.profile>>),
                      (<<"js", config.val.js>>), (<<"adtech", config.val.adtech>>)>>),
                <<>>))

\* marginalia_request with the word test off by one
marginalia_request_ThreeWordsTooMany(query, extra) ==
    IF WordCount(query, FALSE) >= 3 \/ ~PlainQuery(query) THEN Ok(RequestNone)
    ELSE MarginaliaRequestWith(query, MarginaliaConfigOf(TomlGet(extra, "args")))

marginalia_request(query, extra) ==
    IF WordCount(query, FALSE) > 3 \/ ~PlainQuery(query) THEN Ok(RequestNone)
    ELSE MarginaliaRequestWith(query, MarginaliaConfigOf(TomlGet(extra, "args")))

(***************************************************************************)
(* parse.rs: QueryMethod and parse_html_response_with_opts                 *)
(***************************************************************************)
QNone == [kind |-> "None"]
CssSelector(selector) == [kind |-> "CssSelector", sel |-> selector]
Manual(f) == [kind |-> "Manual", f |-> f]

\* a manual rule of a test adapter: it reports a failure on an element that
\* carries the attribute "broken" and gives the element's text otherwise
manual_text_or_err(el) ==
    IF HasAttr(el, "broken") THEN Err("manual rule failed") ELSE Ok(TextOf(el))

\* the ManualQueryMethod closures, by name
ManualCall(f, el) ==
    CASE f = "google_featured_snippet_description" -> google_featured_snippet_description(el)
      [] f = "google_featured_snippet_href" -> google_featured_snippet_href(el)
      [] f = "bing_href" -> bing_href(el)
      [] f = "bing_description" -> bing_description(el)
      [] f = "manual_text_or_err" -> manual_text_or_err(el)

\* the two with_css_selector closures: QueryMethod::call takes the text of the
\* first match; the href rule takes its href attribute, else its text
HrefOrText(how, n) ==
    IF ~n.some THEN NoneV
    ELSE IF how = "href" /\ HasAttr(n.val, "href") THEN Some(n.val.attrs.href)
    ELSE Some(TextOf(n.val))

WithCssSelector(how, el, selector) == HrefOrText(how, First(Select(el, selector)))

SomeOrDefault(opt, default) == IF opt.some THEN opt.val ELSE default

\* call_with_css_selector_override with a failure in place of the
\* unwrap_or_default of parse.rs 129
call_with_css_selector_override_Strict(method, el, how) ==
    CASE method.kind = "None" -> Ok("")
      [] method.kind = "CssSelector" ->
            IF WithCssSelector(how, el, method.sel).some
            THEN Ok(WithCssSelector(how, el, method.sel).val)
            ELSE Err("selector matched nothing")
      [] method.kind = "Manual" -> ManualCall(method.f, el)

call_with_css_selector_override(method, el, how) ==
    CASE method.kind = "None" -> Ok("")
      [] method.kind = "CssSelector" ->
            Ok(SomeOrDefault(WithCssSelector(how, el, method.sel), ""))
      [] method.kind = "Manual" -> ManualCall(method.f, el)

QueryMethodCall(method, el) == call_with_css_selector_override(method, el, "text")

\* the three fields of one element, or the first failure a `?` returns
Fields(title, url, description) ==
    IF title.tag # "Ok" THEN title
    ELSE IF url.tag # "Ok" THEN url
    ELSE IF description.tag # "Ok" THEN description
    ELSE Ok([url |-> url.val, title |-> title.val, description |-> description.val])

ResultFields(opts, result) ==
    Fields(QueryMethodCall(opts.title, result),
           call_with_css_selector_override(opts.href, result, "href"),
           QueryMethodCall(opts.description, result))

\* PushResult that also asks for a title
PushResult_TitleRequired(search_results, f) ==
    IF f.description = "" \/ f.title = "" THEN search_results
    ELSE Append(search_results,
                [url |-> normalize_url(f.url), title |-> f.title,
                 description |-> f.description])

\* PushResult without the test of parse.rs 184-187
PushResult_BothEmpty(search_results, f) ==
    IF f.description = "" /\ f.title = "" THEN search_results
    ELSE Append(search_results,
                [url |-> normalize_url(f.url), title |-> f.title,
                 description |-> f.description])

\* parse.rs 176-195: what one element adds to search_results
PushResult(search_results, f) ==
    IF f.description = "" /\ f.title = "" THEN search_results
    ELSE IF f.description = "" THEN search_results
    ELSE Append(search_results,
                [url |-> normalize_url(f.url), title |-> f.title,
                 description |-> f.description])

\* the loop over the matched elements (parse.rs 163-196)
RECURSIVE ParseResults(_, _, _)
ParseResult(fields, rest, opts, search_results) ==
    IF fields.tag # "Ok" THEN fields
    ELSE ParseResults(rest, opts, PushResult(search_results, fields.val))
ParseResults(results, opts, search_results) ==
    IF Len(results) = 0 THEN Ok(search_results)
    ELSE ParseResult(ResultFields(opts, Head(results)), Tail(results), opts, search_results)

FeaturedFields(opts, featured_snippet) ==
    Fields(QueryMethodCall(opts.featured_snippet_title, featured_snippet),
           QueryMethodCall(opts.featured_snippet_href, featured_snippet),
           QueryMethodCall(opts.featured_snippet_description, featured_snippet))

\* FeaturedSnippetOf that drops a snippet without a description, as the
\* ordinary results are dropped
FeaturedSnippetOf_DescriptionRequired(fields) ==
    IF fields.tag # "Ok" THEN fields
    ELSE IF fields.val.description = "" THEN Ok(NoneV)
    ELSE Ok(Some([url |-> normalize_url(fields.val.url), title |-> fields.val.title,
                  description |-> fields.val.description]))

\* parse.rs 205-215
FeaturedSnippetOf(fields) ==
    IF fields.tag # "Ok" THEN fields
    ELSE IF fields.val.description = "" /\ fields.val.title = "" THEN Ok(NoneV)
    ELSE Ok(Some([url |-> normalize_url(fields.val.url), title |-> fields.val.title,
                  description |-> fields.val.description]))

FirstFeaturedSnippet(opts, featured_snippet) ==
    IF ~featured_snippet.some THEN Ok(NoneV)
    ELSE FeaturedSnippetOf(FeaturedFields(opts, featured_snippet.val))

\* parse.rs 198-221
ParseFeaturedSnippet(dom, opts) ==
    IF ~opts.featured_snippet.some THEN Ok(NoneV)
    ELSE FirstFeaturedSnippet(opts, First(Select(dom, opts.featured_snippet.val)))

\* parse.rs 223-229
Response(fs, search_results) ==
    IF fs.tag # "Ok" THEN fs
    ELSE Ok([search_results |-> search_results, featured_snippet |-> fs.val])

AfterResults(r, dom, opts) ==
    IF r.tag # "Ok" THEN r ELSE Response(ParseFeaturedSnippet(dom, opts), r.val)

parse_html_response_with_opts(dom, opts) ==
    IF ~opts.result.some THEN Panic("result selector must be set")  \* .expect
    ELSE AfterResults(ParseResults(Select(dom, opts.result.val), opts, <<>>), dom, opts)

\* ParseOpts::default() and the builder
ParseOptsDefault ==
    [result |-> NoneV, title |-> QNone, href |-> QNone, description |-> QNone,
     featured_snippet |-> NoneV, featured_snippet_title |-> QNone,
     featured_snippet_href |-> QNone, featured_snippet_description |-> QNone]

GoogleParseOpts ==
    [result |-> Some(G_RESULT_SELECTOR),
     title |-> CssSelector(G_TITLE_SELECTOR),
     href |-> CssSelector(G_HREF_SELECTOR),
     description |-> CssSelector(G_DESCRIPTION_SELECTOR),
     featured_snippet |-> Some(G_FEATURED_SNIPPET_SELECTOR),
     featured_snippet_title |-> CssSelector(G_FS_TITLE_SELECTOR),
     featured_snippet_href |-> Manual("google_featured_snippet_href"),
     featured_snippet_description |-> Manual("google_featured_snippet_description")]

google_parse_response(dom) == parse_html_response_with_opts(dom, GoogleParseOpts)

BingParseOpts ==
    [ParseOptsDefault EXCEPT
        !.result = Some(B_RESULT_SELECTOR),
        !.title = CssSelector(B_TITLE_SELECTOR),
        !.href = Manual("bing_href"),
        !.description = Manual("bing_description")]

bing_parse_response(dom) == parse_html_response_with_opts(dom, BingParseOpts)

(***************************************************************************)
(* Inputs                                                                  *)
(***************************************************************************)
\* values of Bing's u parameter: "a1" + base64 of "http://a.b", then the
\* undecodable ones (too short, padded, outside the alphabet, bad length,
\* trailing bits) and a one-byte payload
BingUValues ==
    {"a1aHR0cDovL2EuYg", "", "a", "a1", "a1aHR0cDovL2EuYg==", "a1a!!!",
     "a1aHR0c", "a1aB", "a1aA", "a1aHR0cA"}

BingTrackingUrls ==
    {BING_TRACKING_PREFIX \o pre \o "u=" \o v \o post :
        pre \in {"", "x=1&"}, v \in BingUValues, post \in {"", "&p=2", "#f"}}
    \cup {BING_TRACKING_PREFIX \o q : q \in {"", "x=1", "U=a1aA", "x=1&&p=2"}}

CleanUrls ==
    {"", "https://a.b/", "https://a.b/?u=a1aA", "http://a.b/c?q=d#e",
     "https://www.bing.com/ck/b?u=a1aA", "/url?x=1&q=a", "/search?q=a"}

GoogleTrackingUrls ==
    {GOOGLE_TRACKING_PREFIX \o d \o post :
        d \in {"", "http://a.b/", "http%3A%2F%2Fa.b%2F", "a+b", "%zz"},
        post \in {"", "&sa=U", "&q=other", "#f"}}

CleanUrlCalls ==
    [fn : {"bing_clean_url"}, url : BingTrackingUrls \cup CleanUrls]
    \cup [fn : {"google_clean_url"}, url : GoogleTrackingUrls \cup CleanUrls]

\* the most result elements of a document
MaxResults == 2

SeqsUpTo(S, n) == UNION {[1..k -> S] : k \in 0..n}

Root(kids) == El({}, NoAttrs, {}, kids)

\* --- documents for a test adapter with the selectors .r .t a .d .f .ft .fd
TitleEl(sel, t) == El({sel}, NoAttrs, {}, IF t = "" THEN <<>> ELSE <<Txt(t)>>)
LinkEl(sel, href, kids) == El({sel}, [href |-> href], {}, kids)

TestResults ==
    { \* title, link with href, description
      El({".r"}, NoAttrs, {},
         <<TitleEl(".t", "T"), LinkEl("a", "https://a.b/", <<Txt("go")>>), TitleEl(".d", "D")>>),
      \* a title-only card
      El({".r"}, NoAttrs, {}, <<TitleEl(".t", "T"), LinkEl("a", "https://a.b/", <<>>)>>),
      \* a description only, with a link that has no href attribute
      El({".r"}, NoAttrs, {},
         <<El({"a"}, NoAttrs, {}, <<Txt("https://t.x/")>>), TitleEl(".d", "D2")>>),
      \* nothing inside
      El({".r"}, NoAttrs, {}, <<>>),
      \* a title and an empty description element
      El({".r"}, NoAttrs, {}, <<TitleEl(".t", "T"), TitleEl(".d", "")>>),
      \* an element on which a manual rule fails
      El({".r"}, [broken |-> "1"], {}, <<TitleEl(".t", "T"), TitleEl(".d", "D")>>) }

TestFeatured ==
    { <<>>,
      <<El({".f"}, NoAttrs, {}, <<TitleEl(".ft", "FT"), TitleEl(".fd", "FD")>>)>>,
      <<El({".f"}, NoAttrs, {}, <<TitleEl(".ft", "FT")>>)>>,
      \* an empty first match, then a full one
      <<El({".f"}, NoAttrs, {}, <<>>),
        El({".f"}, NoAttrs, {}, <<TitleEl(".ft", "FT"), TitleEl(".fd", "FD")>>)>> }

TestDocuments ==
    {Root(f \o rs) : f \in TestFeatured, rs \in SeqsUpTo(TestResults, MaxResults)}

TestParseOpts ==
    {[result |-> r, title |-> t, href |-> h, description |-> d,
      featured_snippet |-> f, featured_snippet_title |-> ft,
      featured_snippet_href |-> QNone, featured_snippet_description |-> fd] :
        r \in {NoneV, Some(".r")},
        t \in {QNone, CssSelector(".t")},
        h \in {QNone, CssSelector("a")},
        d \in {QNone, CssSelector(".d"), Manual("manual_text_or_err")},
        f \in {NoneV, Some(".f")},
        ft \in {CssSelector(".ft")},
        fd \in {QNone, CssSelector(".fd")}}

\* --- Google result pages
GoogleResult(href, desc) ==
    El({G_RESULT_SELECTOR}, NoAttrs, {},
       <<LinkEl(G_HREF_SELECTOR, href, <<TitleEl(G_TITLE_SELECTOR, "T")>>)>>
       \o (IF desc = "" THEN <<>> ELSE <<TitleEl(G_DESCRIPTION_SELECTOR, desc)>>))

GoogleResults ==
    {GoogleResult(h, d) : h \in {"https://a.b/", "/url?q=https://a.b/&sa=U"}, d \in {"", "D"}}

GoogleFsLink(href) ==
    El({G_FS_HREF_SELECTOR}, [href |-> href], {}, <<TitleEl(G_FS_TITLE_SELECTOR, "FT")>>)

GoogleFeatured ==
    { <<>>,
      \* a description container with text, a UI-chrome element and a kept one
      <<El({G_FEATURED_SNIPPET_SELECTOR}, NoAttrs, {},
           <<El({G_DESC_CONTAINER_SELECTOR}, NoAttrs, {},
                <<Txt("a"),
                  El({}, ("data-ved" :> "1"), {}, <<Txt("x")>>),
                  El({}, NoAttrs, {}, <<Txt("b")>>)>>),
             GoogleFsLink("/url?q=https://f.s/&sa=U")>>)>>,
      \* a list
      <<El({G_FEATURED_SNIPPET_SELECTOR}, NoAttrs, {},
           <<El({G_UL_SELECTOR}, NoAttrs, {},
                <<TitleEl(G_LI_SELECTOR, "A"), TitleEl(G_LI_SELECTOR, "B")>>),
             GoogleFsLink("https://f.s/")>>)>>,
      \* nothing to show
      <<El({G_FEATURED_SNIPPET_SELECTOR}, NoAttrs, {}, <<>>)>> }

GoogleDocuments ==
    {Root(f \o rs) : f \in GoogleFeatured, rs \in SeqsUpTo(GoogleResults, MaxResults)}

\* --- Bing result pages
BingResult(href, caption) ==
    El({B_RESULT_SELECTOR}, NoAttrs, {},
       <<El({B_TITLE_SELECTOR, B_HREF_SELECTOR}, [href |-> href], {}, <<Txt("T")>>)>>
       \o caption)

BingCaptions ==
    { <<>>,
      <<El({B_DESC_SELECTOR}, NoAttrs, {},
           <<El({}, NoAttrs, {"algoSlug_icon"}, <<Txt("Web")>>),
             Txt("D "),
             El({}, NoAttrs, {}, <<Txt("bold")>>)>>)>> }

BingResults ==
    {BingResult(h, c) :
        h \in {"https://a.b/",
               BING_TRACKING_PREFIX \o "x=1&u=a1aHR0cDovL2EuYg",
               BING_TRACKING_PREFIX \o "u=a1a!!!",
               BING_TRACKING_PREFIX \o "x=1"},
        c \in BingCaptions}

BingDocuments == {Root(rs) : rs \in SeqsUpTo(BingResults, MaxResults)}

\* --- Bing image pages
ImageContainer(image_els, caption) ==
    El({IMAGE_CONTAINER_SELECTOR}, NoAttrs, {},
       image_els \o (IF caption = "" THEN <<>> ELSE <<Txt(caption)>>))

ImageMeta(purl, title) ==
    JsonText(JObj(<<Member("purl", JStr(purl)), Member("murl", JStr("https://i.mg/1.jpg")),
                    Member("t", JStr(title))>>))

ImageContainers ==
    { \* well formed
      ImageContainer(<<El({IMAGE_EL_SELECTOR}, [m |-> ImageMeta("https://p.a/", "{W}iki")], {}, <<>>)>>,
                     "1200 x 1600 - jpegWikipedia"),
      ImageContainer(<<El({IMAGE_EL_SELECTOR}, [m |-> JsonText(JObj(<<Member("purl", JNum("1"))>>))], {}, <<>>)>>,
                     "1500#1013fity.club"),
      \* no image element
      ImageContainer(<<>>, "640 x 480"),
      \* no metadata attribute
      ImageContainer(<<El({IMAGE_EL_SELECTOR}, NoAttrs, {}, <<>>)>>, "640 x 480"),
      \* metadata that is not JSON
      ImageContainer(<<El({IMAGE_EL_SELECTOR}, [m |-> NotJson], {}, <<>>)>>, "640 x 480"),
      \* captions without dimensions: a duration, plain words, blank, none
      ImageContainer(<<El({IMAGE_EL_SELECTOR}, [m |-> ImageMeta("https://p.b/", "v")], {}, <<>>)>>, "0:30"),
      ImageContainer(<<El({IMAGE_EL_SELECTOR}, [m |-> ImageMeta("https://p.c/", "w")], {}, <<>>)>>, "12 by 7"),
      ImageContainer(<<El({IMAGE_EL_SELECTOR}, [m |-> ImageMeta("https://p.d/", "b")], {}, <<>>)>>, " \n") }

ImageDocuments == {Root(cs) : cs \in SeqsUpTo(ImageContainers, MaxResults)}

\* --- Google autocomplete bodies
MaxSuggestions == 2

SuggestionLists == SeqsUpTo({JStr("a"), JStr("b"), JNum("1")}, MaxSuggestions)

AutocompleteBodies ==
    {NotJson, JsonText(JNull), JsonText(JStr("q")), JsonText(JObj(<<Member("q", JStr("a"))>>)),
     JsonText(JArr(<<>>)), JsonText(JArr(<<JStr("q")>>)),
     JsonText(JArr(<<JStr("q"), JStr("a")>>)), JsonText(JArr(<<JStr("q"), JNull>>))}
    \cup {JsonText(JArr(<<JStr("q"), JArr(l)>>)) : l \in SuggestionLists}
    \cup {JsonText(JArr(<<JStr("q"), JArr(l), JArr(<<>>)>>)) : l \in SuggestionLists}

\* --- queries and Marginalia configurations
Queries ==
    {"", "rust", "rust tla", "a b c", " a  b c ", "a b c d", "a b c d e", "c++", "a-b",
     "say \"hi\"", "\"", "a\tb", "caf?", "x&y=z", "100%", "A1 b2"}

MarginaliaArgsTables ==
    {<<Member("profile", TStr(p)), Member("js", j), Member("adtech", TStr("default"))>> :
        p \in {"corpo", ""}, j \in {TStr("default"), TInt("1")}}
    \cup {<<>>,
          <<Member("profile", TStr("corpo")), Member("js", TStr("default"))>>,
          <<Member("adtech", TStr("x y")), Member("js", TStr("j")),
            Member("profile", TStr("p&q")), Member("more", TInt("2"))>>}

MarginaliaExtras ==
    {<<Member("args", TTable(a))>> : a \in MarginaliaArgsTables}
    \cup {<<>>, <<Member("args", TStr("corpo"))>>,
          <<Member("profile", TStr("corpo")), Member("js", TStr("default")),
            Member("adtech", TStr("default"))>>}

\* --- Google image pages
Nulls(n) == [i \in 1..n |-> JNull]

PageData(page) == JObj(<<Member("2003", page)>>)

\* a record with its image data at offset 3 and its page data at offset 9
ImageRecord(data, page) ==
    JArr(<<JNum("1"), JArr(Nulls(3) \o <<data>> \o Nulls(5) \o <<page>>)>>)

GoodData == JArr(<<JStr("https://i.mg/1.jpg"), JNum("640"), JNum("480")>>)
GoodPage == PageData(JArr(Nulls(2) \o <<JStr("https://p.a/"), JStr("T")>>))

ImageRecords ==
    { \* well formed
      ImageRecord(GoodData, GoodPage),
      ImageRecord(JArr(<<JStr("https://i.mg/2.jpg"), JNum("0"), JNum("7")>>),
                  PageData(JArr(Nulls(2) \o <<JStr(""), JStr("U"), JNull>>))),
      \* not a record
      JStr("x"), JArr(<<JNum("1")>>), JArr(<<JNum("1"), JStr("x")>>),
      \* offsets 3 or 9 missing
      JArr(<<JNum("1"), JArr(Nulls(3))>>),
      JArr(<<JNum("1"), JArr(Nulls(3) \o <<GoodData>> \o Nulls(5))>>),
      \* image data of another shape
      ImageRecord(JArr(<<JStr("https://i.mg/1.jpg"), JNum("640")>>), GoodPage),
      ImageRecord(JArr(<<JStr("https://i.mg/1.jpg"), JStr("640"), JNum("480")>>), GoodPage),
      ImageRecord(JArr(<<JStr("https://i.mg/1.jpg"), JNum("-1"), JNum("480")>>), GoodPage),
      ImageRecord(JNull, GoodPage),
      \* page data of another shape
      ImageRecord(GoodData, JNull),
      ImageRecord(GoodData, JObj(<<Member("2008", JArr(<<>>))>>)),
      ImageRecord(GoodData, PageData(JStr("x"))),
      ImageRecord(GoodData, PageData(JArr(Nulls(2)))),
      ImageRecord(GoodData, PageData(JArr(Nulls(2) \o <<JStr("https://p.a/")>>))),
      ImageRecord(GoodData, PageData(JArr(Nulls(3) \o <<JStr("T")>>))),
      ImageRecord(GoodData, PageData(JArr(Nulls(2) \o <<JStr("https://p.a/"), JNum("1")>>))) }

Keyed(records) == [i \in 1..Len(records) |-> Member(ToString(i), records[i])]

InternalJsons ==
    {JsonText(JObj(Keyed(rs))) : rs \in SeqsUpTo(ImageRecords, MaxResults)}
    \cup {NotJson, JsonText(JArr(<<>>))}

Script(capture) == El({SCRIPT_SELECTOR}, NoAttrs, {}, <<Txt(capture)>>)

\* no script, a script without text, scripts without the block, the block
\* after another script, and a second block that is never read
GoogleImageDocuments ==
    {Root(<<>>), Root(<<El({SCRIPT_SELECTOR}, NoAttrs, {}, <<>>)>>),
     Root(<<Script(NoneV), Script(NoneV)>>)}
    \cup {Root(<<Script(NoneV), Script(Some(j))>>) : j \in InternalJsons}
    \cup {Root(<<Script(Some(j)), Script(Some(JsonText(JObj(Keyed(<<ImageRecord(GoodData, GoodPage)>>)))))>>) :
             j \in InternalJsons}

\* configured languages: none, bare languages in and out of the table,
\* locales with a region, with a script and a region, with an empty region
Languages == {"", "en", "EN", "de", "ja", "xx", "en-GB", "pt-br", "zh-Hant-TW", "en-", "-"}

\* --- Google featured snippets with a description container: text nodes and
\* elements nested up to three deep below the container
MaxSnippetChildren == 2

SnippetAttrs ==
    { NoAttrs,
      ("data-ved" :> "1"),
      ("data-ved" :> "1" @@ "data-send-open-event" :> "") }

SnippetLeaves == {Txt("a"), Txt("b")}

SnippetWrapped(nodes) == {El({}, at, {}, <<n>>) : at \in SnippetAttrs, n \in nodes}

SnippetLevel1 == SnippetLeaves \cup SnippetWrapped(SnippetLeaves)

SnippetLevel2 == SnippetLevel1 \cup SnippetWrapped(SnippetLevel1)

SnippetHeadings == {<<>>, <<El({G_HEADING_SELECTOR}, NoAttrs, {}, <<Txt("H")>>)>>}

SnippetElements ==
    {El({G_FEATURED_SNIPPET_SELECTOR}, NoAttrs, {},
        h \o <<El({G_DESC_CONTAINER_SELECTOR}, NoAttrs, {}, kids)>>) :
        h \in SnippetHeadings, kids \in SeqsUpTo(SnippetLevel2, MaxSnippetChildren)}

RequestCalls ==
    [fn : {"bing_request", "bing_request_images"}, query : Queries, language : Languages]
    \cup [fn : {"brave_request"}, query : Queries]
    \cup [fn : {"marginalia_request"}, query : Queries, extra : MarginaliaExtras]

OtherCalls ==
    [fn : {"bing_parse_images_response"}, body : ImageDocuments]
    \cup [fn : {"google_parse_images_response"}, body : GoogleImageDocuments]
    \cup [fn : {"parse_autocomplete_response"}, body : AutocompleteBodies]
    \cup [fn : {"google_featured_snippet_description"}, el : SnippetElements]

ParseCalls ==
    [fn : {"parse_html_response_with_opts"}, body : TestDocuments, opts : TestParseOpts]
    \cup [fn : {"google_parse_response"}, body : GoogleDocuments]
    \cup [fn : {"bing_parse_response"}, body : BingDocuments]

Calls == CleanUrlCalls \cup ParseCalls \cup OtherCalls \cup RequestCalls

(***************************************************************************)
(* Specification of the pure functions: a call is drawn, then applied.     *)
(***************************************************************************)
TokenIdle ==
    /\ threads = {}
    /\ cache = [init |-> FALSE]
    /\ wlock = 0
    /\ now = 0
    /\ nfresh = 0
    /\ pc = <<>>
    /\ local = <<>>
    /\ stored = <<>>
    /\ done = <<>>

Init ==
    /\ call \in Calls
    /\ ret = Pending
    /\ TokenIdle

BingCleanUrl ==
    /\ ret.tag = "Pending"
    /\ call.fn = "bing_clean_url"
    /\ ret' = bing_clean_url(call.url)
    /\ UNCHANGED <<call, tvars>>

GoogleCleanUrl ==
    /\ ret.tag = "Pending"
    /\ call.fn = "google_clean_url"
    /\ ret' = google_clean_url(call.url)
    /\ UNCHANGED <<call, tvars>>

ParseHtmlResponseWithOpts ==
    /\ ret.tag = "Pending"
    /\ call.fn = "parse_html_response_with_opts"
    /\ ret' = parse_html_response_with_opts(call.body, call.opts)
    /\ UNCHANGED <<call, tvars>>

GoogleParseResponse ==
    /\ ret.tag = "Pending"
    /\ call.fn = "google_parse_response"
    /\ ret' = google_parse_response(call.body)
    /\ UNCHANGED <<call, tvars>>

BingParseResponse ==
    /\ ret.tag = "Pending"
    /\ call.fn = "bing_parse_response"
    /\ ret' = bing_parse_response(call.body)
    /\ UNCHANGED <<call, tvars>>

BingParseImagesResponse ==
    /\ ret.tag = "Pending"
    /\ call.fn = "bing_parse_images_response"
    /\ ret' = bing_parse_images_response(call.body)
    /\ UNCHANGED <<call, tvars>>

ParseAutocompleteResponse ==
    /\ ret.tag = "Pending"
    /\ call.fn = "parse_autocomplete_response"
    /\ ret' = parse_autocomplete_response(call.body)
    /\ UNCHANGED <<call, tvars>>

GoogleParseImagesResponse ==
    /\ ret.tag = "Pending"
    /\ call.fn = "google_parse_images_response"
    /\ ret' = google_parse_images_response(call.body)
    /\ UNCHANGED <<call, tvars>>

BingRequest ==
    /\ ret.tag = "Pending"
    /\ call.fn = "bing_request"
    /\ ret' = bing_request(call.query, call.language)
    /\ UNCHANGED <<call, tvars>>

BingRequestImages ==
    /\ ret.tag = "Pending"
    /\ call.fn = "bing_request_images"
    /\ ret' = bing_request_images(call.query, call.language)
    /\ UNCHANGED <<call, tvars>>

BraveRequest ==
    /\ ret.tag = "Pending"
    /\ call.fn = "brave_request"
    /\ ret' = brave_request(call.query)
    /\ UNCHANGED <<call, tvars>>

MarginaliaRequest ==
    /\ ret.tag = "Pending"
    /\ call.fn = "marginalia_request"
    /\ ret' = marginalia_request(call.query, call.extra)
    /\ UNCHANGED <<call, tvars>>

GoogleFeaturedSnippetDescription ==
    /\ ret.tag = "Pending"
    /\ call.fn = "google_featured_snippet_description"
    /\ ret' = google_featured_snippet_description(call.el)
    /\ UNCHANGED <<call, tvars>>

Next ==
    \/ BingCleanUrl
    \/ GoogleCleanUrl
    \/ ParseHtmlResponseWithOpts
    \/ GoogleParseResponse
    \/ BingParseResponse
    \/ BingParseImagesResponse
    \/ ParseAutocompleteResponse
    \/ GoogleParseImagesResponse
    \/ BingRequest
    \/ BingRequestImages
    \/ BraveRequest
    \/ MarginaliaRequest
    \/ GoogleFeaturedSnippetDescription

Spec == Init /\ [][Next]_vars

(***************************************************************************)
(* google.rs 65-96: generate_async_value and its process-wide token slot.  *)
(* Time is counted in milliseconds; the clock moves by half a second or    *)
(* by an hour at a time.                                                   *)
(***************************************************************************)
\* the hour steps and the half-second steps the clock may take; the calls
\* made one after the other, and the calls made by concurrent threads
MaxHours == 1
MaxHalfSeconds == 2
MaxCalls == 3
MaxConcurrentCalls == 2

HourMs == 60 * 60 * 1000
HalfSecondMs == 1000 \div 2

\* Duration::as_secs: whole seconds
as_secs(ms) == ms \div 1000

\* google.rs 75: last_set.elapsed().as_secs() > 60 * 60
ROTATE_AFTER_SECS == 60 * 60
\* Expired with 60 in place of 60 * 60
Expired_Minutes(last_set, t) == as_secs(t - last_set) > 60
Expired(last_set, t) == as_secs(t - last_set) > ROTATE_AFTER_SECS

\* generate_new_arc_id_random: 23 random characters; the n-th draw is taken
\* to differ from every other
generate_new_arc_id_random(n) == "random" \o ToString(n)

\* google.rs 81-87, with page_number = 1
AsyncValue(random_characters) ==
    "arc_id:srp_" \o random_characters \o "_" \o ToString(100 + 1 * 10)
        \o ",use_ac:true,_fmt:prog"

\* Embedded, had the call formatted what the slot holds
EmbeddedFresh(copy, slot) == slot.token
\* the token a call embeds: random_characters, the copy made at line 73, not
\* what the slot holds by then
Embedded(copy, slot) == copy.token

Calling == {t \in threads : pc[t] # "idle"}

\* the threads that hold a read guard of the RwLock
Readers == {t \in threads : local[t].rguard}

\* the read guard kept until the function returns
DropReadGuard_AtReturn(l) == l
\* line 73: the guard is a temporary of the let statement and is dropped at
\* its end
DropReadGuard(l) == [l EXCEPT !.rguard = FALSE]

CallCap == IF Cardinality(threads) = 1 THEN MaxCalls ELSE MaxConcurrentCalls

TokenInit(ths) ==
    /\ call = [fn |-> "generate_async_value"]
    /\ ret = Pending
    /\ threads = ths
    /\ cache = [init |-> FALSE]
    /\ wlock = 0
    /\ now = 0
    /\ nfresh = 0
    /\ pc = [t \in ths |-> "idle"]
    /\ local = [t \in ths |-> [token |-> "", last_set |-> 0, at |-> 0, version |-> 0,
                                checked |-> 0, rguard |-> FALSE]]
    /\ stored = <<>>
    /\ done = <<>>

\* line 71-73: the first use of the LazyLock fills the slot
Deref(t) ==
    /\ pc[t] = "idle"
    /\ Len(done) + Cardinality(Calling) < CallCap
    /\ IF cache.init
       THEN UNCHANGED <<cache, nfresh, stored>>
       ELSE /\ cache' = [init |-> TRUE, token |-> generate_new_arc_id_random(nfresh),
                         last_set |-> now]
            /\ nfresh' = nfresh + 1
            /\ stored' = Append(stored, [token |-> generate_new_arc_id_random(nfresh),
                                         last_set |-> now, seen |-> 0])
    /\ pc' = [pc EXCEPT ![t] = "read"]
    /\ UNCHANGED <<pvars, threads, wlock, now, local, done>>

\* line 73: .read() waits while a writer holds the lock
ReadLock(t) ==
    /\ pc[t] = "read"
    /\ wlock = 0
    /\ local' = [local EXCEPT ![t].rguard = TRUE]
    /\ pc' = [pc EXCEPT ![t] = "clone"]
    /\ UNCHANGED <<pvars, threads, cache, wlock, now, nfresh, stored, done>>

\* line 73: .clone() of the pair under the read guard, then the end of the
\* statement
Read(t) ==
    /\ pc[t] = "clone"
    /\ local' = [local EXCEPT ![t] =
                    DropReadGuard([token |-> cache.token, last_set |-> cache.last_set,
                                   at |-> now, version |-> Len(stored),
                                   checked |-> 0, rguard |-> local[t].rguard])]
    /\ pc' = [pc EXCEPT ![t] = "check"]
    /\ UNCHANGED <<pvars, threads, cache, wlock, now, nfresh, stored, done>>

\* line 75
Check(t) ==
    /\ pc[t] = "check"
    /\ pc' = [pc EXCEPT ![t] = IF Expired(local[t].last_set, now) THEN "lock" ELSE "format"]
    /\ local' = [local EXCEPT ![t].checked = now]
    /\ UNCHANGED <<pvars, threads, cache, wlock, now, nfresh, stored, done>>

\* line 77: .write() waits while a writer or a reader holds the lock
Lock(t) ==
    /\ pc[t] = "lock"
    /\ wlock = 0
    /\ Readers = {}
    /\ wlock' = t
    /\ pc' = [pc EXCEPT ![t] = "store"]
    /\ UNCHANGED <<pvars, threads, cache, now, nfresh, local, stored, done>>

\* line 78: *arc_id = (generate_new_arc_id_random(), Instant::now()); the
\* write through the guard moves the two fields of the pair one after the
\* other, first the token
Store(t) ==
    /\ pc[t] = "store"
    /\ cache' = [cache EXCEPT !.token = generate_new_arc_id_random(nfresh)]
    /\ nfresh' = nfresh + 1
    /\ pc' = [pc EXCEPT ![t] = "stamp"]
    /\ UNCHANGED <<pvars, threads, wlock, now, local, stored, done>>

\* line 78, the second field of the pair
Stamp(t) ==
    /\ pc[t] = "stamp"
    /\ cache' = [cache EXCEPT !.last_set = now]
    /\ stored' = Append(stored, [token |-> cache.token, last_set |-> now,
                                 seen |-> local[t].version])
    /\ pc' = [pc EXCEPT ![t] = "unlock"]
    /\ UNCHANGED <<pvars, threads, wlock, now, nfresh, local, done>>

\* line 79: the write guard is dropped at the end of the block
Unlock(t) ==
    /\ pc[t] = "unlock"
    /\ wlock' = 0
    /\ pc' = [pc EXCEPT ![t] = "format"]
    /\ UNCHANGED <<pvars, threads, cache, now, nfresh, local, stored, done>>

\* lines 81-87
Format(t) ==
    /\ pc[t] = "format"
    /\ done' = Append(done, [thread |-> t,
                             value |-> AsyncValue(Embedded(local[t], cache)),
                             token |-> Embedded(local[t], cache),
                             at |-> local[t].at,
                             checked |-> local[t].checked,
                             last_set |-> local[t].last_set,
                             version |-> local[t].version])
    /\ pc' = [pc EXCEPT ![t] = "idle"]
    /\ UNCHANGED <<pvars, threads, cache, wlock, now, nfresh, local, stored>>

\* the clock moves
Tick ==
    /\ \E d \in {HalfSecondMs, HourMs} :
          /\ (now + d) \div HourMs <= MaxHours
          /\ ((now + d) % HourMs) \div HalfSecondMs <= MaxHalfSeconds
          /\ now' = now + d
    /\ UNCHANGED <<pvars, threads, cache, wlock, nfresh, pc, local, stored, done>>

\* a step of a call in progress
Step(t) ==
    \/ ReadLock(t)
    \/ Read(t)
    \/ Check(t)
    \/ Lock(t)
    \/ Store(t)
    \/ Stamp(t)
    \/ Unlock(t)
    \/ Format(t)

TokenNext ==
    \/ \E t \in threads : Deref(t)
    \/ \E t \in threads : ReadLock(t)
    \/ \E t \in threads : Read(t)
    \/ \E t \in threads : Check(t)
    \/ \E t \in threads : Lock(t)
    \/ \E t \in threads : Store(t)
    \/ \E t \in threads : Stamp(t)
    \/ \E t \in threads : Unlock(t)
    \/ \E t \in threads : Format(t)
    \/ Tick

\* one caller at a time: a sequence of calls
SeqInit == TokenInit({1})
SpecSeq == SeqInit /\ [][TokenNext]_vars

\* concurrent request builders
ConcThreads == {1, 2}
ConcInit == TokenInit(ConcThreads)
SpecConc == ConcInit /\ [][TokenNext]_vars

\* concurrent request builders on threads that the scheduler keeps running: a
\* call in progress that can take its next step eventually takes it
SpecConcFair ==
    ConcInit /\ [][TokenNext]_vars /\ \A t \in ConcThreads : WF_vars(Step(t))

(***************************************************************************)
(* Properties of the extraction engine and of the adapters' parsers,       *)
(* stated of a returned call (specification Spec).                         *)
(***************************************************************************)
Returned == ret.tag # "Pending"

HtmlParsers == {"parse_html_response_with_opts", "google_parse_response", "bing_parse_response"}

\* the elements a parse_html_response_with_opts call iterates
Matched == Select(call.body, call.opts.result.val)

\* C1: every SearchResult of a response returned by parse_html_response_with_opts
\* (called directly or by the Google and Bing adapters) has a non-empty
\* description.
C1_DescriptionNeverEmpty ==
    (call.fn \in HtmlParsers /\ ret.tag = "Ok") =>
        \A i \in 1..Len(ret.val.search_results) :
            ret.val.search_results[i].description # ""

\* a returned response with a result, from a page that also holds a candidate
\* with a title and an empty description
C1_TitledCandidateDropped ==
    /\ call.fn = "parse_html_response_with_opts"
    /\ ret.tag = "Ok"
    /\ Len(ret.val.search_results) >= 1
    /\ \E i \in 1..Len(Matched) :
          /\ ResultFields(call.opts, Matched[i]).tag = "Ok"
          /\ ResultFields(call.opts, Matched[i]).val.title # ""
          /\ ResultFields(call.opts, Matched[i]).val.description = ""

\* the destination of a Bing tracking link cannot be decoded: u is absent or
\* empty, shorter than the two characters cut off, or not URL-safe unpadded
\* base64
BingUndecodable(url) ==
    \/ Len(FindPairOrDefault(query_pairs(url), "u")) < 2
    \/ b64_decode(From(FindPairOrDefault(query_pairs(url), "u"), 3)).tag # "Ok"

\* C5: for an href with the Bing tracking prefix whose destination cannot be
\* decoded, clean_url returns the empty string, and Bing's parse_response
\* returns a response whatever links the page holds.
C5_UndecodableGivesEmpty ==
    /\ (/\ call.fn = "bing_clean_url"
        /\ Returned
        /\ StartsWith(call.url, BING_TRACKING_PREFIX)
        /\ BingUndecodable(call.url)) => ret = Ok("")
    /\ (call.fn = "bing_parse_response" /\ Returned) => ret.tag = "Ok"

\* the image containers of a page
ImageContainersOf(dom) == Select(dom, IMAGE_CONTAINER_SELECTOR)

\* a container has its image element, the metadata attribute holding JSON, and
\* a caption with dimensions
ImageWellFormed(c) ==
    /\ First(Select(c, IMAGE_EL_SELECTOR)).some
    /\ HasAttr(First(Select(c, IMAGE_EL_SELECTOR)).val, "m")
    /\ First(Select(c, IMAGE_EL_SELECTOR)).val.attrs.m.valid
    /\ SizeCaptures(TextOf(c), 1).some

\* a container whose metadata attribute does not hold JSON
ImageMetadataUnreadable(c) ==
    /\ First(Select(c, IMAGE_EL_SELECTOR)).some
    /\ HasAttr(First(Select(c, IMAGE_EL_SELECTOR)).val, "m")
    /\ ~First(Select(c, IMAGE_EL_SELECTOR)).val.attrs.m.valid

ImageOf(c) ==
    ImageResult(First(Select(c, IMAGE_EL_SELECTOR)).val.attrs.m.value,
                SizeCaptures(TextOf(c), 1).val)

RECURSIVE ImagesOfWellFormed(_)
ImagesOfWellFormed(containers) ==
    IF Len(containers) = 0 THEN <<>>
    ELSE (IF ImageWellFormed(Head(containers)) THEN <<ImageOf(Head(containers))>> ELSE <<>>)
         \o ImagesOfWellFormed(Tail(containers))

\* C6: when the only defects of a page's image containers are a missing image
\* element, a missing metadata attribute or a caption without dimensions,
\* Bing's parse_images_response succeeds and returns, in order, the results
\* of the well-formed containers.
C6_ContainerDefectDropsOnlyIt ==
    (/\ call.fn = "bing_parse_images_response"
     /\ Returned
     /\ \A i \in 1..Len(ImageContainersOf(call.body)) :
            ~ImageMetadataUnreadable(ImageContainersOf(call.body)[i]))
    => ret = Ok([image_results |-> ImagesOfWellFormed(ImageContainersOf(call.body))])

\* the body is a JSON array whose second element is an array
AutocompleteShape(body) ==
    /\ body.valid
    /\ body.value.j = "arr"
    /\ Len(body.value.a) >= 2
    /\ body.value.a[2].j = "arr"

\* C7: Google's parse_autocomplete_response returns the entries of the second
\* element of the top-level array, in order, and an empty sequence, never an
\* error, for a body of any other shape.
C7_AutocompleteNeverFails ==
    (call.fn = "parse_autocomplete_response" /\ Returned) =>
        /\ ret.tag = "Ok"
        /\ Len(ret.val) = (IF AutocompleteShape(call.body)
                           THEN Len(call.body.value.a[2].a) ELSE 0)
        /\ AutocompleteShape(call.body) =>
              \A i \in 1..Len(ret.val) :
                  call.body.value.a[2].a[i].j = "str" =>
                      ret.val[i] = call.body.value.a[2].a[i].s

\* the href attributes of a page that begin with Google's tracking path
WrappedHrefs(dom) ==
    {Descendants(dom)[i].attrs.href :
        i \in {n \in 1..Len(Descendants(dom)) :
                  /\ HasAttr(Descendants(dom)[n], "href")
                  /\ StartsWith(Descendants(dom)[n].attrs.href, GOOGLE_TRACKING_PREFIX)}}

\* C8: no URL in the output of Google's parse_response, of an ordinary result
\* or of the featured snippet, is the normalization of a link still wrapped
\* in the tracking path /url?q=.
C8_NoWrappedUrlEmitted ==
    (call.fn = "google_parse_response" /\ ret.tag = "Ok") =>
        \A h \in WrappedHrefs(call.body) :
            /\ \A i \in 1..Len(ret.val.search_results) :
                  ret.val.search_results[i].url # normalize_url(h)
            /\ ret.val.featured_snippet.some =>
                  ret.val.featured_snippet.val.url # normalize_url(h)

SelectorRule(method) == method.kind \in {"None", "CssSelector"}

\* a specification with a result selector whose rules are all absent or
\* selector-based
SelectorOnlyCall ==
    /\ call.fn = "parse_html_response_with_opts"
    /\ call.opts.result.some
    /\ SelectorRule(call.opts.title)
    /\ SelectorRule(call.opts.href)
    /\ SelectorRule(call.opts.description)
    /\ SelectorRule(call.opts.featured_snippet_title)
    /\ SelectorRule(call.opts.featured_snippet_href)
    /\ SelectorRule(call.opts.featured_snippet_description)

NoFeaturedMatch ==
    IF call.opts.featured_snippet.some
    THEN Len(Select(call.body, call.opts.featured_snippet.val)) = 0
    ELSE TRUE

\* C9: with a result selector and only absent or selector-based rules,
\* extraction returns a response, never an error; the response has no results
\* when nothing matches the result selector and no featured snippet when
\* nothing matches the featured-snippet selector.
C9_SelectorRulesNeverFail ==
    (SelectorOnlyCall /\ Returned) =>
        /\ ret.tag = "Ok"
        /\ Len(Matched) = 0 => ret.val.search_results = <<>>
        /\ NoFeaturedMatch => ~ret.val.featured_snippet.some

\* such a call on a page where a featured-snippet selector is configured and
\* neither selector matches, and one on a page where a result matches but
\* its rules' selectors do not
C9_NothingMatches ==
    /\ SelectorOnlyCall
    /\ ret.tag = "Ok"
    /\ call.opts.featured_snippet.some
    /\ call.opts.title.kind = "CssSelector"
    /\ call.opts.description.kind = "CssSelector"
    /\ NoFeaturedMatch
    /\ Len(Matched) = 2
    /\ Len(Matched[1].kids) = 0
    /\ Len(Matched[2].kids) > 0
    /\ Len(ret.val.search_results) = 1

\* C10: a call whose specification has no result selector returns an error
\* value.
C10_MissingSelectorIsAnError ==
    (/\ call.fn = "parse_html_response_with_opts"
     /\ ~call.opts.result.some
     /\ Returned) => ret.tag = "Err"

\* the extraction specification a call runs with
OptsOf ==
    IF call.fn = "google_parse_response" THEN GoogleParseOpts
    ELSE IF call.fn = "bing_parse_response" THEN BingParseOpts
    ELSE call.opts

\* what the matched element el stands for in the response: nothing when its
\* description is empty, else one result
ExpectedOf(f) ==
    IF f.description = "" THEN <<>>
    ELSE <<[url |-> normalize_url(f.url), title |-> f.title, description |-> f.description]>>

RECURSIVE ExpectedResults(_, _)
ExpectedResults(els, opts) ==
    IF Len(els) = 0 THEN <<>>
    ELSE ExpectedOf(ResultFields(opts, Head(els)).val) \o ExpectedResults(Tail(els), opts)

\* C11: the ordinary results of a returned response are, in document order,
\* one result for each element matched by the result selector whose
\* extracted description is non-empty, and nothing else; an empty title or
\* URL does not drop a candidate.
C11_ResultsAreTheDescribedMatches ==
    (call.fn \in HtmlParsers /\ ret.tag = "Ok") =>
        ret.val.search_results
            = ExpectedResults(Select(call.body, OptsOf.result.val), OptsOf)

\* a response with two different results, the first without a title and
\* with the text of its link for a URL
C11_UntitledFirstOfTwo ==
    /\ call.fn = "parse_html_response_with_opts"
    /\ ret.tag = "Ok"
    /\ Len(ret.val.search_results) = 2
    /\ ret.val.search_results[1].title = ""
    /\ ret.val.search_results[2].title # ""
    /\ ret.val.search_results[1].url = normalize_url("https://t.x/")

\* the first match of the featured-snippet selector, when one is configured
FirstFeatured ==
    IF OptsOf.featured_snippet.some
    THEN First(Select(call.body, OptsOf.featured_snippet.val))
    ELSE NoneV

FeaturedExpected(f) ==
    IF f.title = "" /\ f.description = "" THEN NoneV
    ELSE Some([url |-> normalize_url(f.url), title |-> f.title, description |-> f.description])

\* C12: a returned response carries a featured snippet exactly when a
\* featured-snippet selector is configured, an element matches it and the
\* title and description extracted from the first match are not both empty;
\* the snippet is the one built from that first match.
C12_SnippetIffFirstMatchHasContent ==
    (call.fn \in HtmlParsers /\ ret.tag = "Ok") =>
        ret.val.featured_snippet
            = (IF FirstFeatured.some
               THEN FeaturedExpected(FeaturedFields(OptsOf, FirstFeatured.val).val)
               ELSE NoneV)

\* a snippet with a title and no description was attached
C12_TitleOnlySnippet ==
    /\ call.fn = "parse_html_response_with_opts"
    /\ ret.tag = "Ok"
    /\ ret.val.featured_snippet.some
    /\ ret.val.featured_snippet.val.title # ""
    /\ ret.val.featured_snippet.val.description = ""

\* the extra configuration decodes to MarginaliaConfig: an args table with
\* the strings profile, js and adtech
ConfigDecodes(extra) ==
    /\ TomlGet(extra, "args").some
    /\ TomlGet(extra, "args").val.t = "table"
    /\ \A k \in {"profile", "js", "adtech"} :
          IsTomlString(TomlGet(TomlGet(extra, "args").val.m, k))

ConfiguredPairs(args) ==
    <<(<<"profile", TomlGet(args, "profile").val.s>>),
      (<<"js", TomlGet(args, "js").val.s>>),
      (<<"adtech", TomlGet(args, "adtech").val.s>>)>>

\* C13: Marginalia's request builder always returns; it returns no request
\* exactly when the query has more than three whitespace-separated words,
\* or a character that is not an ASCII letter, digit or space, or the extra
\* configuration does not decode; otherwise the request's URL carries the
\* query and the configured profile, js and adtech.
C13_MarginaliaDeclinesExactly ==
    (call.fn = "marginalia_request" /\ Returned) =>
        /\ ret.tag = "Ok"
        /\ ret.val.kind = "None" <=>
              \/ WordCount(call.query, FALSE) > 3
              \/ \E i \in 1..Len(call.query) :
                    ~IsIn(CharAt(call.query, i), AsciiAlphanumeric \o " ")
              \/ ~ConfigDecodes(call.extra)
        /\ ret.val.kind = "Http" =>
              /\ StartsWith(ret.val.url, "https://old-search.marginalia.nu/search?")
              /\ query_pairs(ret.val.url)
                    = <<(<<"query", call.query>>)>>
                      \o ConfiguredPairs(TomlGet(call.extra, "args").val.m)

\* a query of exactly three words, with spaces around them, gets a request
C13_ThreeWordsAccepted ==
    /\ call.fn = "marginalia_request"
    /\ Returned
    /\ WordCount(call.query, FALSE) = 3
    /\ Len(call.query) > 5
    /\ ret.val.kind = "Http"

\* C14: Brave's request builder returns no request exactly when the query
\* holds a double quote; every other query, the empty one included, gets a
\* request whose q parameter is the query.
C14_BraveDeclinesQuotesOnly ==
    (call.fn = "brave_request" /\ Returned) =>
        /\ ret.tag = "Ok"
        /\ ret.val.kind = "None" <=> IsIn("\"", call.query)
        /\ ret.val.kind = "Http" =>
              /\ StartsWith(ret.val.url, "https://search.brave.com/search?")
              /\ query_pairs(ret.val.url) = <<(<<"q", call.query>>)>>

\* the empty query gets a request
C14_EmptyQueryAccepted ==
    /\ call.fn = "brave_request"
    /\ call.query = ""
    /\ Returned
    /\ ret.val.kind = "Http"

\* the JSON block of a Google image page: what the first script that holds
\* one holds
BlockOf(dom) == InternalJson(Select(dom, SCRIPT_SELECTOR))

BlockDecodes(dom) ==
    /\ BlockOf(dom).some
    /\ BlockOf(dom).val.valid
    /\ BlockOf(dom).val.value.j = "obj"

\* a page array with a URL string at offset 2 and a title string at offset 3
PageWellFormed(page) ==
    /\ page.j = "arr"
    /\ Len(page.a) >= 4
    /\ page.a[3].j = "str"
    /\ page.a[4].j = "str"

\* an inner array with [url, width, height] at offset 3 and, at offset 9, an
\* object whose member 2003 is a page array
InnerWellFormed(r) ==
    /\ Len(r) >= 10
    /\ r[4].j = "arr"
    /\ Len(r[4].a) = 3
    /\ r[4].a[1].j = "str"
    /\ IsU64(r[4].a[2])
    /\ IsU64(r[4].a[3])
    /\ r[10].j = "obj"
    /\ \E i \in 1..Len(r[10].o) : r[10].o[i].k = "2003"
    /\ PageWellFormed(GetMember(r[10].o, "2003"))

RecordWellFormed(v) ==
    /\ v.j = "arr"
    /\ Len(v.a) >= 2
    /\ v.a[2].j = "arr"
    /\ InnerWellFormed(v.a[2].a)

ImageOfInner(r) ==
    [image_url |-> r[4].a[1].s,
     page_url |-> GetMember(r[10].o, "2003").a[3].s,
     title |-> GetMember(r[10].o, "2003").a[4].s,
     width |-> ParseDecimal(r[4].a[2].s, 0),
     height |-> ParseDecimal(r[4].a[3].s, 0)]

RECURSIVE ImagesOfWellFormedRecords(_)
ImagesOfWellFormedRecords(members) ==
    IF Len(members) = 0 THEN <<>>
    ELSE (IF RecordWellFormed(Head(members).v)
          THEN <<ImageOfInner(Head(members).v.a[2].a)>> ELSE <<>>)
         \o ImagesOfWellFormedRecords(Tail(members))

\* C15: Google's parse_images_response never returns an error; without a
\* JSON block, or with one that does not decode to an object, it returns an
\* empty image sequence; with a block that decodes it returns the images of
\* the well-formed records, skipping every record that misses an offset.
C15_GoogleImagesSoftSkips ==
    (call.fn = "google_parse_images_response" /\ Returned) =>
        /\ ret.tag = "Ok"
        /\ ret.val.image_results
              = (IF BlockDecodes(call.body)
                 THEN ImagesOfWellFormedRecords(BlockOf(call.body).val.value.o)
                 ELSE <<>>)

\* a block of two records, the first without its page data, gave the image
\* of the second
C15_SecondRecordSurvives ==
    /\ call.fn = "google_parse_images_response"
    /\ Returned
    /\ BlockDecodes(call.body)
    /\ Len(BlockOf(call.body).val.value.o) = 2
    /\ ~RecordWellFormed(BlockOf(call.body).val.value.o[1].v)
    /\ Len(ret.val.image_results) = 1

\* the '-'-separated segments of the configured language
Segments == Split(call.language, "-")

\* the country sent for the configured language: the upper-cased last segment
\* of a locale with a region, else the table's entry for the language
CountryOfLanguage ==
    IF Len(Segments) >= 2 THEN to_uppercase(Segments[Len(Segments)])
    ELSE language_to_country(to_lowercase(Segments[1]))

Contains(str, sub) ==
    \E i \in 1..(Len(str) - Len(sub) + 1) : SubSeq(str, i, i + Len(sub) - 1) = sub

\* C16: Bing's web and image request builders send, for a non-empty
\* language, the query text "<query> language:<lang> loc:<COUNTRY>" and a
\* Cookie header with _EDGE_CD and _EDGE_S; for an empty language they send
\* the query as it is and no Cookie header.
C16_BingLocaleInQueryAndCookie ==
    (call.fn \in {"bing_request", "bing_request_images"} /\ Returned) =>
        /\ ret.tag = "Ok"
        /\ ret.val.kind = "Http"
        /\ call.language = "" =>
              /\ query_pairs(ret.val.url)[1] = <<"q", call.query>>
              /\ ret.val.headers = <<>>
        /\ call.language # "" =>
              /\ query_pairs(ret.val.url)[1]
                    = <<"q", call.query \o " language:" \o to_lowercase(Segments[1])
                               \o " loc:" \o CountryOfLanguage>>
              /\ Len(ret.val.headers) = 1
              /\ ret.val.headers[1][1] = "Cookie"
              /\ Contains(ret.val.headers[1][2], "_EDGE_CD=")
              /\ Contains(ret.val.headers[1][2], "_EDGE_S=")

\* a locale with a script and a region, in mixed case
C16_RegionIsTheLastSegment ==
    /\ call.fn = "bing_request_images"
    /\ Returned
    /\ Len(Segments) = 3
    /\ call.query = "rust tla"
    /\ query_pairs(ret.val.url)[1] = <<"q", "rust tla language:zh loc:TW">>

\* C17: the Bing and the Google URL cleaner return a URL that does not begin
\* with the engine's tracking prefix unchanged and without error, and
\* cleaning what they returned gives the same again.
C17_CleanUrlsAreLeftAlone ==
    /\ (/\ call.fn = "bing_clean_url"
        /\ Returned
        /\ ~StartsWith(call.url, BING_TRACKING_PREFIX))
       => (ret = Ok(call.url) /\ bing_clean_url(ret.val) = ret)
    /\ (/\ call.fn = "google_clean_url"
        /\ Returned
        /\ ~StartsWith(call.url, GOOGLE_TRACKING_PREFIX))
       => (ret = Ok(call.url) /\ google_clean_url(ret.val) = ret)

\* a relative /url link whose q is not the first parameter came back as it
\* was
C17_NearTrackingLinkUntouched ==
    /\ call.fn = "google_clean_url"
    /\ StartsWith(call.url, "/url?")
    /\ ~StartsWith(call.url, GOOGLE_TRACKING_PREFIX)
    /\ ret = Ok(call.url)

\* An element of the user interface: it carries data-ved and no
\* data-send-open-event.
UiChrome(n) ==
    /\ IsEl(n)
    /\ "data-ved" \in DOMAIN n.attrs
    /\ "data-send-open-event" \notin DOMAIN n.attrs

\* The nodes of a list with every subtree of a user-interface element removed.
RECURSIVE WithoutUiChrome(_)
WithoutUiChromeNode(n) ==
    IF UiChrome(n) THEN <<>>
    ELSE IF IsEl(n) THEN <<[n EXCEPT !.kids = WithoutUiChrome(n.kids)]>>
    ELSE <<n>>
WithoutUiChrome(nodes) ==
    IF nodes = <<>> THEN <<>>
    ELSE WithoutUiChromeNode(Head(nodes)) \o WithoutUiChrome(Tail(nodes))

SnippetContainer(el) == el.kids[Len(el.kids)]

SnippetHeadingText(el) ==
    IF Len(el.kids) = 2 THEN TextOf(el.kids[1]) \o "\n\n" ELSE ""

\* C18: the description built from a description container is the heading
\* followed by the text, in document order, of the text nodes of the container
\* that lie under no element carrying data-ved without data-send-open-event;
\* the subtree of such an element is dropped at any depth and the text under
\* every other element is kept.
C18_SnippetTextSkipsUiChrome ==
    (Returned /\ call.fn = "google_featured_snippet_description")
        => ret = Ok(SnippetHeadingText(call.el)
                    \o TextOfKids(WithoutUiChrome(SnippetContainer(call.el).kids)))

\* a user-interface element nested inside an element that carries both
\* attributes: the outer one is entered, the inner one is dropped
C18_NestedUiChromeDropped ==
    /\ Returned
    /\ call.fn = "google_featured_snippet_description"
    /\ Len(call.el.kids) = 1
    /\ Len(SnippetContainer(call.el).kids) = 2
    /\ IsEl(SnippetContainer(call.el).kids[1])
    /\ HasAttr(SnippetContainer(call.el).kids[1], "data-ved")
    /\ HasAttr(SnippetContainer(call.el).kids[1], "data-send-open-event")
    /\ UiChrome(SnippetContainer(call.el).kids[1].kids[1])
    /\ TextOf(SnippetContainer(call.el).kids[1]) = "a"
    /\ SnippetContainer(call.el).kids[2] = Txt("b")
    /\ ret = Ok("b")

(***************************************************************************)
(* Properties of the token slot, stated of the calls made so far: done     *)
(* holds, for each finished call, the token it embedded, the time at which *)
(* it read the slot (at) and tested its age (checked) and the generation   *)
(* time of the pair it read (last_set); stored holds the pairs written to  *)
(* the slot, each with the number of pairs written before its writer read. *)
(***************************************************************************)
\* C2 as the specification states it: in a sequence of calls, two calls made
\* less than one hour apart embed the identical token.
C2_SameTokenWithinAnyHour ==
    \A i, j \in 1..Len(done) :
        (i < j /\ done[j].at - done[i].at < HourMs) => done[i].token = done[j].token

\* C2: in a sequence of calls, two calls embed the identical token when the
\* later one tests the age of the slot no more than 3600 whole seconds after
\* the generation time of the pair the earlier one read.
C2_SameTokenUntilExpiry ==
    \A i, j \in 1..Len(done) :
        (i < j /\ as_secs(done[j].checked - done[i].last_set) <= 60 * 60)
            => done[i].token = done[j].token

\* two calls at different times in the first hour of a token, and a third
\* call after a rotation
C2_ReusedThenRotated ==
    /\ Len(done) = 3
    /\ done[1].at < done[2].at
    /\ as_secs(done[2].checked - done[1].last_set) <= 60 * 60
    /\ done[1].token = done[2].token
    /\ Len(stored) = 2

\* C3: of two sequential calls, the first made within the hour that follows
\* the generation of the cached token and the second more than one hour
\* after that generation, the second embeds a token that differs from the
\* first's.
C3_DiffersAcrossBoundary ==
    \A i, j \in 1..Len(done) :
        (/\ i < j
         /\ as_secs(done[i].checked - done[i].last_set) <= 60 * 60
         /\ as_secs(done[j].at - done[i].last_set) > 60 * 60)
            => done[j].token # done[i].token

\* C4 as the specification states it: any two writes of a pair to the slot
\* are more than one hour apart, and every call embeds the token that the
\* slot held when the call read it.
C4_AtMostOneWritePerHour ==
    /\ \A i, j \in 1..Len(stored) :
          i < j => stored[j].last_set - stored[i].last_set > HourMs
    /\ \A k \in 1..Len(done) : done[k].token = stored[done[k].version].token

\* C4: under every interleaving, a write whose writer read the slot after an
\* earlier write is more than one hour later than that write (only writers
\* that overlap can write within the same hour), and every call embeds the
\* token that the slot held when the call read it.
C4_WritesOfSuccessiveReadersAnHourApart ==
    /\ \A i, j \in 1..Len(stored) :
          (i < j /\ stored[j].seen >= i)
              => stored[j].last_set - stored[i].last_set > HourMs
    /\ \A k \in 1..Len(done) : done[k].token = stored[done[k].version].token

\* two overlapping calls have both read the first pair, have both written a
\* new one, and have finished
C4_BothRegenerated ==
    /\ Len(stored) = 3
    /\ stored[2].seen = 1
    /\ stored[3].seen = 1
    /\ Len(done) = 2

(***************************************************************************)
(* The locking discipline of the token slot under concurrent callers.      *)
(***************************************************************************)
\* no call asks for, or holds, the write lock while it holds a read guard
ReadGuardDroppedBeforeWrite ==
    \A t \in threads :
        pc[t] \in {"lock", "store", "stamp", "unlock"} => ~local[t].rguard

\* while a call is in progress, some call in progress can take a step
NoDeadlock == (Calling # {}) => \E t \in Calling : ENABLED Step(t)

\* the pair a call has copied is one that was written whole, and so is the
\* pair in the slot whenever the write lock is free
PairsAreWhole ==
    /\ \A t \in threads :
          pc[t] \in {"check", "lock", "store", "stamp", "unlock", "format"}
            => \E i \in 1..Len(stored) :
                  /\ stored[i].token = local[t].token
                  /\ stored[i].last_set = local[t].last_set
    /\ (cache.init /\ wlock = 0)
          => /\ cache.token = stored[Len(stored)].token
             /\ cache.last_set = stored[Len(stored)].last_set

\* once filled, the slot changes only under the write lock, by its holder,
\* with no reader inside
WrittenUnderWriteLock ==
    (cache.init /\ cache' # cache)
        => /\ wlock \in threads
           /\ wlock' = wlock
           /\ pc[wlock] \in {"store", "stamp"}
           /\ pc'[wlock] # pc[wlock]
           /\ Readers = {}

\* C19: a caller has dropped its read guard before it requests the write
\* lock; under every interleaving of concurrent calls some call in progress
\* can always step (no deadlock) and, when the threads are scheduled fairly,
\* every call in progress returns; the pair in the slot is replaced only by
\* the holder of the write lock, and no call ever copies a half-written pair.
C19_TokenCacheLocking ==
    /\ [](ReadGuardDroppedBeforeWrite /\ NoDeadlock /\ PairsAreWhole)
    /\ [][WrittenUnderWriteLock]_vars
    /\ \A t \in ConcThreads : (pc[t] # "idle") ~> (pc[t] = "idle")

\* one call has rotated the token and returned; the other, which had copied
\* the same old pair, now holds the write lock and is half-way through its
\* own write
C19_SecondWriterAfterFirstReturned ==
    /\ Len(done) = 1
    /\ Len(stored) = 2
    /\ stored[2].seen = 1
    /\ \E u \in threads :
          /\ wlock = u
          /\ pc[u] = "stamp"
          /\ local[u].version = 1
          /\ done[1].thread # u

====
